---- MODULE Spec2Model ----
(***************************************************************************)
(* AgentNexus escrow and pipeline settlement.                              *)
(*                                                                         *)
(* Part 1 models smart-contracts/src/AgentNexusEscrow.sol: every external  *)
(* function is an operator from (contract state, arguments) to (contract   *)
(* state, revert reason), and one action per function applies it to the    *)
(* variables.  A token transfer may call back into the contract (a token   *)
(* with transfer hooks); the callback is an input of the action and is     *)
(* evaluated on the intermediate state of the outer call.                  *)
(*                                                                         *)
(* Part 2 models the A2A pipeline contracts of                             *)
(* specs/003-twelve-week-comprehensive-roadmap/research.md.                *)
(***************************************************************************)
EXTENDS Integers, Sequences, FiniteSets, TLC

VARIABLES
    payments,               \* mapping(bytes32 => Payment)
    agentDevelopers,        \* mapping(uint256 => address)
    supportedTokens,        \* mapping(address => bool)
    platformFeePercentage,  \* uint256, basis points
    balances,               \* ERC20 balanceOf, per token and account
    now,                    \* block.timestamp, in days
    last,                   \* outcome of the most recent external call
    emitted,                \* per payment id, the settlement events emitted for it
    pipelines,              \* A2APaymentProtocol: mapping(bytes32 => A2APipeline)
    dispatched,             \* per pipeline, the steps whose agent was called, in order
    transfers,              \* per pipeline, the payments distributePayments made
    agentRevenue,           \* RevenueDistributor: pendingWithdrawal per pipeline and agent
    lastP,                  \* outcome of the most recent pipeline call
    executions,             \* the Execution table ReceiptService reads
    issued,                 \* per execution, the receipt ids handed out so far
    lastR,                  \* outcome of the most recent ReceiptService call
    lastQ,                  \* size of the result of the most recent bulk query
    env,                    \* process.env, the COMPLIANCE_*_ENABLED variables
    complianceConfig,       \* the cached ComplianceConfig (its enabled flags)
    envAtLoad,              \* the environment as loadComplianceConfig last read it
    events,                 \* AuditLoggerService.events
    eventCounter,           \* AuditLoggerService.eventCounter
    unpersisted,            \* counters of the events logged while persistence was off
    lastA,                  \* outcome of the most recent AuditLoggerService call
    lastV,                  \* input and result of the most recent validateRuntimeConfig
    lastS                   \* result of the most recent getComplianceStatus

pipeVars == <<pipelines, dispatched, transfers, agentRevenue, lastP>>

escrowVars == <<payments, agentDevelopers, supportedTokens, platformFeePercentage,
                balances, now, last, emitted>>

serviceVars == <<executions, issued, lastR, lastQ>>

configVars == <<env, complianceConfig, envAtLoad>>

auditVars == <<events, eventCounter, unpersisted, lastA>>

runtimeVars == <<lastV, lastS>>

----------------------------------------------------------------------------
(* Bounds of the model *)

MaxTime == 8
UserFunds == 10050
MaxSteps == 3
MaxRevenue == 2002
MaxPipelines == 2
MaxRows == 10001
MaxEvents == 3

(* Program constants *)

MAX_PLATFORM_FEE == 1000
PAYMENT_EXPIRY == 7
BPS_DENOMINATOR == 10000

(* Addresses *)

ZERO == "0x0"
ESCROW == "escrow"
platformFeeRecipient == "platform"
ADMIN == "admin"
ORCHESTRATOR == "orchestrator"
Users == {"user"}
Developers == {"dev1", "dev2"}
Accounts == Users \cup Developers \cup {platformFeeRecipient, ESCROW}

PaymentIds == {"h1", "h2"}
AgentIds == {1, 2}
Tokens == {"USDC", "USDT"}
Amounts == {0, 39, 10000}
Fees == {0, 250, 1000, 1001}

NONE == "-"
OK == "ok"
NoCall ==
    [op |-> "none", sender |-> ZERO, id |-> NONE, agentId |-> 0, amount |-> 0,
     token |-> ZERO, propagate |-> FALSE]

(* enum PaymentStatus *)
PaymentStatus == {"Pending", "Escrowed", "Released", "Refunded", "Disputed"}

(* The zero-initialised Payment a mapping holds for an unused key *)
EmptyPayment ==
    [user |-> ZERO, developer |-> ZERO, agentId |-> 0, amount |-> 0, token |-> ZERO,
     status |-> "Pending", createdAt |-> 0, expiresAt |-> 0]

(* AccessControl: the constructor grants both roles to the deployer; the    *)
(* deployment grants ORCHESTRATOR_ROLE to the orchestrator service.         *)
hasRole(role, account) ==
    CASE role = "DEFAULT_ADMIN_ROLE" -> account = ADMIN
      [] role = "ORCHESTRATOR_ROLE" -> account \in {ADMIN, ORCHESTRATOR}
      [] OTHER -> FALSE

----------------------------------------------------------------------------
(* The contract state as one value, so that a function can be applied to    *)
(* an intermediate state.  entered is ReentrancyGuard's _status; fault is   *)
(* set when a token transfer inside the call reverted.                      *)

Cur ==
    [payments |-> payments, agentDevelopers |-> agentDevelopers,
     supportedTokens |-> supportedTokens,
     platformFeePercentage |-> platformFeePercentage,
     balances |-> balances, emitted |-> emitted, entered |-> FALSE, fault |-> FALSE]

Return(s, err) == [s |-> s, err |-> err, nested |-> "none"]

(* ERC20 transfer of amt from one account to another *)
TokenTransfer(b, token, from, to, amt) ==
    LET b1 == [b EXCEPT ![token][from] = @ - amt]
    IN  [b1 EXCEPT ![token][to] = @ + amt]

(* SafeERC20 safeTransfer / safeTransferFrom: reverts when the balance of   *)
(* the source is too small.                                                 *)
Pay(s, token, from, to, amt) ==
    IF s.fault \/ s.balances[token][from] < amt
    THEN [s EXCEPT !.fault = TRUE]
    ELSE [s EXCEPT !.balances = TokenTransfer(@, token, from, to, amt)]

(* emit PaymentReleased / PaymentRefunded *)
Emit(s, id, event) == [s EXCEPT !.emitted[id] = Append(@, event)]

(* nonReentrant: the modifier admits the call iff the guard is not entered *)
nonReentrantAdmits(s) == ~s.entered

Enter(s) == [s EXCEPT !.entered = TRUE]
Leave(s) == [s EXCEPT !.entered = FALSE]

(* End of a call that started in s0 and ran to sf *)
Finish(s0, sf, nested) ==
    IF sf.fault
    THEN [s |-> s0, err |-> "ERC20: transfer amount exceeds balance", nested |-> nested]
    ELSE [s |-> Leave(sf), err |-> OK, nested |-> nested]

----------------------------------------------------------------------------
(* A call made back into the contract from inside a token transfer.  c.op   *)
(* names the function; propagate says whether the token lets a revert of    *)
(* the callback revert the transfer (and with it the whole outer call).     *)

Callbacks ==
    {NoCall}
    \cup [op : {"release", "refund"}, sender : {ORCHESTRATOR}, id : PaymentIds,
          agentId : {0}, amount : {0}, token : {ZERO}, propagate : BOOLEAN]
    \cup [op : {"deposit"}, sender : {"user"}, id : PaymentIds,
          agentId : {1}, amount : {39}, token : {"USDC"}, propagate : BOOLEAN]

----------------------------------------------------------------------------
(* depositPayment *)

depositRequire_Overwrites(s, sender, id, agentId, amount, token) ==
    IF ~nonReentrantAdmits(s) THEN "ReentrancyGuard: reentrant call"
    ELSE IF ~s.supportedTokens[token] THEN "Token not supported"
    ELSE IF agentId \notin DOMAIN s.agentDevelopers \/ s.agentDevelopers[agentId] = ZERO
         THEN "Agent not registered"
    ELSE IF ~(amount > 0) THEN "Amount must be positive"
    ELSE OK

depositRequire_NoAmountCheck(s, sender, id, agentId, amount, token) ==
    IF ~nonReentrantAdmits(s) THEN "ReentrancyGuard: reentrant call"
    ELSE IF ~s.supportedTokens[token] THEN "Token not supported"
    ELSE IF s.payments[id].user # ZERO THEN "Payment already exists"
    ELSE IF agentId \notin DOMAIN s.agentDevelopers \/ s.agentDevelopers[agentId] = ZERO
         THEN "Agent not registered"
    ELSE OK

depositRequire(s, sender, id, agentId, amount, token) ==
    IF ~nonReentrantAdmits(s) THEN "ReentrancyGuard: reentrant call"
    ELSE IF ~s.supportedTokens[token] THEN "Token not supported"
    ELSE IF s.payments[id].user # ZERO THEN "Payment already exists"
    ELSE IF agentId \notin DOMAIN s.agentDevelopers \/ s.agentDevelopers[agentId] = ZERO
         THEN "Agent not registered"
    ELSE IF ~(amount > 0) THEN "Amount must be positive"
    ELSE OK

depositPull(s, sender, amount, token) == Pay(s, token, sender, ESCROW, amount)

depositRecord_Disputed(s, sender, t, id, agentId, amount, token) ==
    [s EXCEPT !.payments[id] =
        [user |-> sender, developer |-> s.agentDevelopers[agentId], agentId |-> agentId,
         amount |-> amount, token |-> token, status |-> "Disputed",
         createdAt |-> t, expiresAt |-> t + PAYMENT_EXPIRY]]

depositRecord(s, sender, t, id, agentId, amount, token) ==
    [s EXCEPT !.payments[id] =
        [user |-> sender, developer |-> s.agentDevelopers[agentId], agentId |-> agentId,
         amount |-> amount, token |-> token, status |-> "Escrowed",
         createdAt |-> t, expiresAt |-> t + PAYMENT_EXPIRY]]

depositInner(s, sender, t, id, agentId, amount, token) ==
    LET e == depositRequire(s, sender, id, agentId, amount, token)
    IN  IF e # OK THEN Return(s, e)
        ELSE Finish(s, depositRecord(depositPull(Enter(s), sender, amount, token),
                                     sender, t, id, agentId, amount, token), "none")

----------------------------------------------------------------------------
(* releasePayment *)

PlatformFee_RoundsUp(amount, bps) ==
    (amount * bps + BPS_DENOMINATOR - 1) \div BPS_DENOMINATOR

PlatformFee(amount, bps) == (amount * bps) \div BPS_DENOMINATOR

(* The fee rate a release applies to hold id *)
ReleaseFeeBps(s, id) == s.platformFeePercentage

releaseRequire_ExistsOnly(s, sender, t, id) ==
    IF ~hasRole("ORCHESTRATOR_ROLE", sender) THEN "AccessControl: missing role"
    ELSE IF s.payments[id].status = "Pending" THEN "Payment not in escrow"
    ELSE IF ~(t <= s.payments[id].expiresAt) THEN "Payment expired"
    ELSE OK

releaseRequire_IgnoresExpiry(s, sender, t, id) ==
    IF ~hasRole("ORCHESTRATOR_ROLE", sender) THEN "AccessControl: missing role"
    ELSE IF ~nonReentrantAdmits(s) THEN "ReentrancyGuard: reentrant call"
    ELSE IF s.payments[id].status # "Escrowed" THEN "Payment not in escrow"
    ELSE OK

releaseRequire_ExpiryExclusive(s, sender, t, id) ==
    IF ~hasRole("ORCHESTRATOR_ROLE", sender) THEN "AccessControl: missing role"
    ELSE IF ~nonReentrantAdmits(s) THEN "ReentrancyGuard: reentrant call"
    ELSE IF s.payments[id].status # "Escrowed" THEN "Payment not in escrow"
    ELSE IF ~(t < s.payments[id].expiresAt) THEN "Payment expired"
    ELSE OK

releaseRequire(s, sender, t, id) ==
    IF ~hasRole("ORCHESTRATOR_ROLE", sender) THEN "AccessControl: missing role"
    ELSE IF ~nonReentrantAdmits(s) THEN "ReentrancyGuard: reentrant call"
    ELSE IF s.payments[id].status # "Escrowed" THEN "Payment not in escrow"
    ELSE IF ~(t <= s.payments[id].expiresAt) THEN "Payment expired"
    ELSE OK

releaseMark_Forgets(s, id) == s

releaseMark(s, id) == [s EXCEPT !.payments[id].status = "Released"]

releasePayDeveloper_Registered(s, id, platformFee) ==
    LET p == s.payments[id]
    IN  Pay(s, p.token, ESCROW, s.agentDevelopers[p.agentId], p.amount - platformFee)

releasePayDeveloper(s, id, platformFee) ==
    LET p == s.payments[id]
    IN  Pay(s, p.token, ESCROW, p.developer, p.amount - platformFee)

releasePayPlatform_Keeps(s, id, platformFee) == s

releasePayPlatform(s, id, platformFee) ==
    LET p == s.payments[id]
    IN  IF platformFee > 0
        THEN Pay(s, p.token, ESCROW, platformFeeRecipient, platformFee)
        ELSE s

releaseInner(s, sender, t, id) ==
    LET e == releaseRequire(s, sender, t, id)
        fee == PlatformFee(s.payments[id].amount, ReleaseFeeBps(s, id))
    IN  IF e # OK THEN Return(s, e)
        ELSE Finish(s, Emit(releasePayPlatform(
                              releasePayDeveloper(releaseMark(Enter(s), id), id, fee),
                              id, fee), id, "PaymentReleased"),
                    "none")

----------------------------------------------------------------------------
(* refundPayment *)

refundRequire_AnyCaller(s, sender, id) ==
    IF ~nonReentrantAdmits(s) THEN "ReentrancyGuard: reentrant call"
    ELSE IF s.payments[id].status # "Escrowed" THEN "Payment not in escrow"
    ELSE OK

refundRequire_SupportedOnly(s, sender, id) ==
    IF ~hasRole("ORCHESTRATOR_ROLE", sender) THEN "AccessControl: missing role"
    ELSE IF ~nonReentrantAdmits(s) THEN "ReentrancyGuard: reentrant call"
    ELSE IF s.payments[id].status # "Escrowed" THEN "Payment not in escrow"
    ELSE IF ~s.supportedTokens[s.payments[id].token] THEN "Token not supported"
    ELSE OK

refundRequire(s, sender, id) ==
    IF ~hasRole("ORCHESTRATOR_ROLE", sender) THEN "AccessControl: missing role"
    ELSE IF ~nonReentrantAdmits(s) THEN "ReentrancyGuard: reentrant call"
    ELSE IF s.payments[id].status # "Escrowed" THEN "Payment not in escrow"
    ELSE OK

refundMark(s, id) == [s EXCEPT !.payments[id].status = "Refunded"]

refundPayUser_PaysDeveloper(s, id) ==
    LET p == s.payments[id]
    IN  Pay(s, p.token, ESCROW, p.developer, p.amount)

refundPayUser(s, id) ==
    LET p == s.payments[id]
    IN  Pay(s, p.token, ESCROW, p.user, p.amount)

refundInner(s, sender, id) ==
    LET e == refundRequire(s, sender, id)
    IN  IF e # OK THEN Return(s, e)
        ELSE Finish(s, Emit(refundPayUser(refundMark(Enter(s), id), id), id,
                            "PaymentRefunded"), "none")

----------------------------------------------------------------------------
(* The callback c run on the intermediate state s of an outer call *)

RunCallback(s, t, c) ==
    CASE c.op = "release" -> releaseInner(s, c.sender, t, c.id)
      [] c.op = "refund" -> refundInner(s, c.sender, c.id)
      [] c.op = "deposit" -> depositInner(s, c.sender, t, c.id, c.agentId, c.amount,
                                          c.token)
      [] OTHER -> Return(s, "none")

(* The callback reverted and the token lets the revert through *)
CallbackAborts(c, n) == c.op # "none" /\ n.err \notin {OK, "none"} /\ c.propagate

(* State in which the outer call resumes after the callback: a callback     *)
(* that ran to its end has released the guard.                              *)
Resume(n) == n.s

----------------------------------------------------------------------------
(* The external functions, each with the callback its first token transfer  *)
(* triggers.                                                                *)

depositPayment(s, sender, t, id, agentId, amount, token, c) ==
    LET e == depositRequire(s, sender, id, agentId, amount, token)
        s1 == depositPull(Enter(s), sender, amount, token)
        n == RunCallback(s1, t, c)
    IN  IF e # OK THEN Return(s, e)
        ELSE IF s1.fault THEN Finish(s, s1, "none")
        ELSE IF CallbackAborts(c, n)
             THEN [s |-> s, err |-> "callback reverted", nested |-> n.err]
        ELSE Finish(s, depositRecord(Resume(n), sender, t, id, agentId, amount, token),
                    n.err)

releasePayment(s, sender, t, id, c) ==
    LET e == releaseRequire(s, sender, t, id)
        fee == PlatformFee(s.payments[id].amount, ReleaseFeeBps(s, id))
        s1 == releasePayDeveloper(releaseMark(Enter(s), id), id, fee)
        n == RunCallback(s1, t, c)
    IN  IF e # OK THEN Return(s, e)
        ELSE IF s1.fault THEN Finish(s, s1, "none")
        ELSE IF CallbackAborts(c, n)
             THEN [s |-> s, err |-> "callback reverted", nested |-> n.err]
        ELSE Finish(s, Emit(releasePayPlatform(Resume(n), id, fee), id, "PaymentReleased"),
                    n.err)

refundPayment(s, sender, t, id, c) ==
    LET e == refundRequire(s, sender, id)
        s1 == refundPayUser(refundMark(Enter(s), id), id)
        n == RunCallback(s1, t, c)
    IN  IF e # OK THEN Return(s, e)
        ELSE IF s1.fault THEN Finish(s, s1, "none")
        ELSE IF CallbackAborts(c, n)
             THEN [s |-> s, err |-> "callback reverted", nested |-> n.err]
        ELSE Finish(s, Emit(Resume(n), id, "PaymentRefunded"), n.err)

(* registerAgent *)
registerAgent(s, sender, agentId, developer) ==
    IF ~hasRole("DEFAULT_ADMIN_ROLE", sender) THEN Return(s, "AccessControl: missing role")
    ELSE IF developer = ZERO THEN Return(s, "Invalid developer address")
    ELSE Return([s EXCEPT !.agentDevelopers[agentId] = developer], OK)

(* setSupportedToken *)
setSupportedToken(s, sender, token, supported) ==
    IF ~hasRole("DEFAULT_ADMIN_ROLE", sender) THEN Return(s, "AccessControl: missing role")
    ELSE Return([s EXCEPT !.supportedTokens[token] = supported], OK)

(* setPlatformFee *)
setPlatformFee_Unchecked(s, sender, bps) ==
    IF ~hasRole("DEFAULT_ADMIN_ROLE", sender) THEN Return(s, "AccessControl: missing role")
    ELSE Return([s EXCEPT !.platformFeePercentage = bps], OK)

setPlatformFee(s, sender, bps) ==
    IF ~hasRole("DEFAULT_ADMIN_ROLE", sender) THEN Return(s, "AccessControl: missing role")
    ELSE IF ~(bps <= MAX_PLATFORM_FEE) THEN Return(s, "Fee too high")
    ELSE Return([s EXCEPT !.platformFeePercentage = bps], OK)

----------------------------------------------------------------------------
(* State after construction: no agent registered, no token supported, the   *)
(* fee the constructor accepted; the users hold tokens.                     *)

Outcome(op, id, sender, r, c) ==
    [op |-> op, id |-> id, sender |-> sender, err |-> r.err, nested |-> r.nested,
     cb |-> c]

(* The requires of the constructor *)
constructorRequire(recipient, bps) ==
    IF recipient = ZERO THEN "Invalid fee recipient"
    ELSE IF ~(bps <= MAX_PLATFORM_FEE) THEN "Fee too high"
    ELSE OK

InitEscrow ==
    /\ payments = [id \in PaymentIds |-> EmptyPayment]
    /\ agentDevelopers = [a \in AgentIds |-> ZERO]
    /\ supportedTokens = [tok \in Tokens |-> FALSE]
    /\ platformFeePercentage \in {f \in Fees : constructorRequire(platformFeeRecipient, f) = OK}
    /\ balances = [tok \in Tokens |->
                      [a \in Accounts |-> IF a \in Users THEN UserFunds ELSE 0]]
    /\ now = 0
    /\ emitted = [id \in PaymentIds |-> <<>>]
    /\ last = Outcome("constructor", NONE, ADMIN, Return(Cur, OK), NoCall)

(* The transaction's effect on storage and token balances *)
Commit(r) ==
    /\ payments' = r.s.payments
    /\ agentDevelopers' = r.s.agentDevelopers
    /\ supportedTokens' = r.s.supportedTokens
    /\ platformFeePercentage' = r.s.platformFeePercentage
    /\ balances' = r.s.balances
    /\ emitted' = r.s.emitted
    /\ UNCHANGED <<pipeVars, serviceVars, configVars, auditVars, runtimeVars>>

Deposit(sender, id, agentId, amount, token, c) ==
    LET r == depositPayment(Cur, sender, now, id, agentId, amount, token, c)
    IN  /\ Commit(r)
        /\ last' = Outcome("deposit", id, sender, r, c)
        /\ UNCHANGED now

Release(sender, id, c) ==
    LET r == releasePayment(Cur, sender, now, id, c)
    IN  /\ Commit(r)
        /\ last' = Outcome("release", id, sender, r, c)
        /\ UNCHANGED now

Refund(sender, id, c) ==
    LET r == refundPayment(Cur, sender, now, id, c)
    IN  /\ Commit(r)
        /\ last' = Outcome("refund", id, sender, r, c)
        /\ UNCHANGED now

RegisterAgent(sender, agentId, developer) ==
    LET r == registerAgent(Cur, sender, agentId, developer)
    IN  /\ Commit(r)
        /\ last' = Outcome("registerAgent", NONE, sender, r, NoCall)
        /\ UNCHANGED now

SetSupportedToken(sender, token, supported) ==
    LET r == setSupportedToken(Cur, sender, token, supported)
    IN  /\ Commit(r)
        /\ last' = Outcome("setSupportedToken", NONE, sender, r, NoCall)
        /\ UNCHANGED now

SetPlatformFee(sender, bps) ==
    LET r == setPlatformFee(Cur, sender, bps)
    IN  /\ Commit(r)
        /\ last' = Outcome("setPlatformFee", NONE, sender, r, NoCall)
        /\ UNCHANGED now

(* A later block: block.timestamp grows by d *)
Tick(d) ==
    /\ now + d <= MaxTime
    /\ now' = now + d
    /\ last' = Outcome("tick", NONE, ZERO, Return(Cur, OK), NoCall)
    /\ UNCHANGED <<payments, agentDevelopers, supportedTokens, platformFeePercentage,
                   balances, emitted>>
    /\ UNCHANGED <<pipeVars, serviceVars, configVars, auditVars, runtimeVars>>

----------------------------------------------------------------------------
(* The A2A pipeline contracts (A2APaymentProtocol, RevenueDistributor).      *)

TREASURY == "platformTreasury"
Creators == {"creator"}
Agents == {"agentA", "agentB", "agentC"}

(* enum PipelineStatus, enum StepStatus *)
PipelineStatus == {"Created", "Executing", "Completed", "Failed", "Cancelled"}
StepStatus == {"Pending", "Executing", "Completed", "Failed"}

A2AStep(agent, cost, share) ==
    [agentAddress |-> agent, stepCost |-> cost, outputData |-> "", status |-> "Pending",
     revenueShare |-> share]

(* Step lists a caller submits *)
StepLists ==
    { <<>>,
      <<A2AStep("agentA", 1000, 10000)>>,
      <<A2AStep("agentA", 100, 6000), A2AStep("agentB", 100, 6000)>>,
      <<A2AStep("agentA", 100, 2000), A2AStep("agentB", 500, 6000),
        A2AStep("agentC", 401, 2000)>> }

RevenueShares == {10000, 3000}
Revenues == {1001}

(* The zero-initialised A2APipeline a mapping holds for an unused key: the   *)
(* first member of PipelineStatus is Created.                                *)
EmptyPipeline ==
    [creator |-> ZERO, steps |-> <<>>, totalCost |-> 0, revenueShare |-> 0,
     status |-> "Created", completedAt |-> 0]

(* keccak256(abi.encodePacked(msg.sender, block.timestamp, steps.length)) *)
PipelineId(sender, t, n) == <<sender, t, n>>

PipelineKeys(t) == {PipelineId(c, t, n) : c \in Creators, n \in 0..MaxSteps}

Pipeline(ps, key) == IF key \in DOMAIN ps THEN ps[key] ELSE EmptyPipeline

Store(f, key, v) == [k \in DOMAIN f \cup {key} |-> IF k = key THEN v ELSE f[k]]

RECURSIVE SumCosts(_, _)
SumCosts(steps, i) ==
    IF i > Len(steps) THEN 0 ELSE steps[i].stepCost + SumCosts(steps, i + 1)

RECURSIVE SumShares(_, _)
SumShares(steps, i) ==
    IF i > Len(steps) THEN 0 ELSE steps[i].revenueShare + SumShares(steps, i + 1)

RECURSIVE SumAmounts(_, _)
SumAmounts(log, i) ==
    IF i > Len(log) THEN 0 ELSE log[i].amount + SumAmounts(log, i + 1)

(* createPipeline: the record stored under the id *)
createPipeline(ps, sender, t, steps, revenueShare) ==
    LET id == PipelineId(sender, t, Len(steps))
    IN  Store(ps, id, [Pipeline(ps, id) EXCEPT
                          !.creator = sender, !.steps = steps,
                          !.totalCost = SumCosts(steps, 1),
                          !.revenueShare = revenueShare, !.status = "Created"])

(* The loop of executePipeline from step i on: verdicts[i] is the success    *)
(* flag step i's agent call returns.  calls lists the steps dispatched.      *)
RECURSIVE RunSteps(_, _, _)
RunSteps(steps, verdicts, i) ==
    IF i > Len(steps) THEN [steps |-> steps, failed |-> FALSE, calls |-> <<>>]
    ELSE IF verdicts[i]
         THEN LET rest == RunSteps([steps EXCEPT ![i].outputData = "output",
                                                 ![i].status = "Completed"],
                                   verdicts, i + 1)
              IN  [rest EXCEPT !.calls = <<i>> \o @]
         ELSE [steps |-> [steps EXCEPT ![i].status = "Failed"], failed |-> TRUE,
               calls |-> <<i>>]

(* distributePayments: the transfers made, step 0 standing for the treasury *)
distributePayments(p) ==
    LET platformFee == (p.totalCost * (BPS_DENOMINATOR - p.revenueShare)) \div BPS_DENOMINATOR
        agentPool == p.totalCost - platformFee
    IN  [i \in 1..Len(p.steps) |->
            [to |-> p.steps[i].agentAddress,
             amount |-> (agentPool * p.steps[i].revenueShare) \div BPS_DENOMINATOR,
             step |-> i]]
        \o <<[to |-> TREASURY, amount |-> platformFee, step |-> 0]>>

(* distributeRevenue: the share credited to the i-th agent *)
agentShare(totalRevenue, percentage) == (totalRevenue * percentage) \div BPS_DENOMINATOR

RECURSIVE SumAgentShares(_, _, _)
SumAgentShares(steps, totalRevenue, i) ==
    IF i > Len(steps) THEN 0
    ELSE agentShare(totalRevenue, steps[i].revenueShare)
            + SumAgentShares(steps, totalRevenue, i + 1)

RECURSIVE Credited(_, _, _, _)
Credited(rev, steps, totalRevenue, i) ==
    IF i > Len(steps) THEN rev
    ELSE Credited([rev EXCEPT ![steps[i].agentAddress] =
                      @ + agentShare(totalRevenue, steps[i].revenueShare)],
                  steps, totalRevenue, i + 1)

NoRevenue == [a \in Agents |-> 0]
Revenue(key) == IF key \in DOMAIN agentRevenue THEN agentRevenue[key] ELSE NoRevenue

RECURSIVE SumOver(_, _)
SumOver(f, S) ==
    IF S = {} THEN 0 ELSE LET x == CHOOSE y \in S : TRUE IN f[x] + SumOver(f, S \ {x})

TotalCredited(key) == SumOver(Revenue(key), Agents)

OutcomeP(op, key, err, total, paid) ==
    [op |-> op, key |-> key, err |-> err, total |-> total, paid |-> paid]

InitPipeline ==
    /\ pipelines = <<>>
    /\ dispatched = <<>>
    /\ transfers = <<>>
    /\ agentRevenue = <<>>
    /\ lastP = OutcomeP("constructor", NONE, OK, 0, 0)

(* Bound on the number of pipeline ids in use *)
Tracked(key) == key \in DOMAIN pipelines \/ Cardinality(DOMAIN pipelines) < MaxPipelines

Log(f, key) == IF key \in DOMAIN f THEN f[key] ELSE <<>>

CreatePipeline(sender, steps, revenueShare) ==
    LET id == PipelineId(sender, now, Len(steps))
    IN  /\ Tracked(id)
        /\ pipelines' = createPipeline(pipelines, sender, now, steps, revenueShare)
        /\ dispatched' = Store(dispatched, id, <<>>)
        /\ transfers' = Store(transfers, id, <<>>)
        /\ lastP' = OutcomeP("createPipeline", id, OK, 0, 0)
        /\ UNCHANGED <<agentRevenue, escrowVars,
                  serviceVars, configVars, auditVars, runtimeVars>>

(* executePipeline with the verdicts of the agent calls; payOk says whether  *)
(* the contract's balance covers the transfers of distributePayments.        *)
ExecutePipeline(key, verdicts, payOk) ==
    LET p == Pipeline(pipelines, key)
        run == RunSteps(p.steps, verdicts, 1)
        pay == distributePayments(p)
    IN  /\ Tracked(key)
        /\ IF p.status # "Created"
           THEN /\ lastP' = OutcomeP("executePipeline", key, "Pipeline not ready", 0, 0)
                /\ UNCHANGED <<pipelines, dispatched, transfers, agentRevenue, escrowVars,
                  serviceVars, configVars, auditVars, runtimeVars>>
           ELSE IF run.failed
           THEN /\ pipelines' = Store(pipelines, key,
                                      [p EXCEPT !.steps = run.steps, !.status = "Failed"])
                /\ dispatched' = Store(dispatched, key, run.calls)
                /\ transfers' = Store(transfers, key, <<>>)
                /\ lastP' = OutcomeP("executePipeline", key, OK, p.totalCost, 0)
                /\ UNCHANGED <<agentRevenue, escrowVars,
                  serviceVars, configVars, auditVars, runtimeVars>>
           ELSE IF ~payOk \/ p.revenueShare > BPS_DENOMINATOR
           THEN /\ lastP' = OutcomeP("executePipeline", key, "transfer failed", 0, 0)
                /\ UNCHANGED <<pipelines, dispatched, transfers, agentRevenue, escrowVars,
                  serviceVars, configVars, auditVars, runtimeVars>>
           ELSE /\ pipelines' = Store(pipelines, key,
                                      [p EXCEPT !.steps = run.steps, !.status = "Completed",
                                                !.completedAt = now])
                /\ dispatched' = Store(dispatched, key, run.calls)
                /\ transfers' = Store(transfers, key, pay)
                /\ lastP' = OutcomeP("executePipeline", key, OK, p.totalCost,
                                     SumAmounts(pay, 1))
                /\ UNCHANGED <<agentRevenue, escrowVars,
                  serviceVars, configVars, auditVars, runtimeVars>>

(* distributeRevenue(pipelineId, agents, percentages, totalRevenue), agents  *)
(* and percentages taken from a step list.                                   *)
DistributeRevenue(key, steps, totalRevenue) ==
    /\ TotalCredited(key) + totalRevenue <= MaxRevenue
    /\ IF SumShares(steps, 1) # BPS_DENOMINATOR
       THEN /\ lastP' = OutcomeP("distributeRevenue", key, "Percentages must sum to 100%",
                                 0, 0)
            /\ UNCHANGED agentRevenue
       ELSE /\ agentRevenue' = Store(agentRevenue, key,
                                     Credited(Revenue(key), steps, totalRevenue, 1))
            /\ lastP' = OutcomeP("distributeRevenue", key, OK, totalRevenue,
                                 SumAgentShares(steps, totalRevenue, 1))
    /\ UNCHANGED <<pipelines, dispatched, transfers, escrowVars, serviceVars, configVars, auditVars, runtimeVars>>

NextPipeline ==
    \/ \E sender \in Creators, steps \in StepLists, revenueShare \in RevenueShares :
          CreatePipeline(sender, steps, revenueShare)
    \/ \E key \in PipelineKeys(now), payOk \in BOOLEAN :
          \E verdicts \in [1..Len(Pipeline(pipelines, key).steps) -> BOOLEAN] :
             ExecutePipeline(key, verdicts, payOk)
    \/ \E sender \in Creators, steps \in StepLists, totalRevenue \in Revenues :
          DistributeRevenue(PipelineId(sender, now, MaxSteps), steps, totalRevenue)

----------------------------------------------------------------------------
(* ReceiptService (backend/src/services/ReceiptService.ts) over the          *)
(* Execution table it reads through Prisma.                                  *)

ExecIds == {"e1", "e2"}
UserIds == {"u1", "u2"}
ExecAgents == {"a1", "a2"}

(* A date that is null or undefined *)
NULL == -1

(* Execution.status and ExecutionReceipt['status'] *)
ExecutionStatus == {"PENDING", "RUNNING", "COMPLETED", "FAILED", "CANCELLED"}
InProgress == {"PENDING", "RUNNING"}
ReceiptStatus == {"SUCCESS", "FAILED", "TIMEOUT", "CANCELLED"}

NoExecution ==
    [id |-> NONE, exists |-> FALSE, status |-> "PENDING", startTime |-> 0,
     endTime |-> NULL, userId |-> NONE, agentId |-> NONE]

(* JavaScript truthiness of an optional string, number or Date *)
TruthyString(x) == x # NONE
TruthyNumber(x) == x # NULL /\ x # 0
TruthyDate(x) == x # NULL

mapStatus(status) ==
    CASE status = "COMPLETED" -> "SUCCESS"
      [] status = "FAILED" -> "FAILED"
      [] status = "CANCELLED" -> "CANCELLED"
      [] OTHER -> "FAILED"

unmapStatus(status) ==
    CASE status = "SUCCESS" -> "COMPLETED"
      [] status = "FAILED" -> "FAILED"
      [] status = "TIMEOUT" -> "FAILED"
      [] status = "CANCELLED" -> "CANCELLED"

(* rcpt_ + the first 16 hex digits of sha256(id:startTime): a function of    *)
(* the execution's id and start time and of nothing else.                    *)
generateReceiptId(execution) == <<"rcpt", execution.id, execution.startTime>>

generateReceiptRequire_AnyStatus(execution) ==
    IF ~execution.exists THEN "Execution not found" ELSE OK

generateReceiptRequire(execution) ==
    IF ~execution.exists THEN "Execution not found"
    ELSE IF execution.status = "PENDING" \/ execution.status = "RUNNING"
         THEN "Execution still in progress"
    ELSE OK

(* generateReceipt(executionId) at time t; t is what new Date() returns *)
generateReceipt(table, executionId, t) ==
    LET execution == table[executionId]
        e == generateReceiptRequire(execution)
    IN  IF e # OK THEN [err |-> e, receipts |-> <<>>]
        ELSE [err |-> OK,
              receipts |-> <<[receiptId |-> generateReceiptId(execution),
                              executionId |-> execution.id,
                              timestamp |-> execution.startTime,
                              completedAt |-> IF execution.endTime # NULL
                                              THEN execution.endTime ELSE t,
                              agentId |-> execution.agentId,
                              userId |-> execution.userId,
                              status |-> mapStatus(execution.status)]>>]

(* ReceiptQueryOptions; a field left out is NONE (strings) or NULL *)
NoOptions ==
    [userId |-> NONE, agentId |-> NONE, status |-> NONE, startDate |-> NULL,
     endDate |-> NULL, limit |-> NULL, offset |-> NULL]

(* A condition on one column: none, equality, or exclusion of a set *)
AnyValue == [kind |-> "any", values |-> {}]
Equals(v) == [kind |-> "equals", values |-> {v}]
NotIn(S) == [kind |-> "notIn", values |-> S]

Satisfies(v, cond) ==
    CASE cond.kind = "equals" -> v \in cond.values
      [] cond.kind = "notIn" -> v \notin cond.values
      [] OTHER -> TRUE

(* The object where that listReceipts builds from the options *)
listWhere(options) ==
    [userId |-> IF TruthyString(options.userId) THEN Equals(options.userId) ELSE AnyValue,
     agentId |-> IF TruthyString(options.agentId) THEN Equals(options.agentId) ELSE AnyValue,
     status |-> IF TruthyString(options.status)
                THEN Equals(unmapStatus(options.status)) ELSE AnyValue,
     gte |-> IF TruthyDate(options.startDate) THEN options.startDate ELSE NULL,
     lte |-> IF TruthyDate(options.endDate) THEN options.endDate ELSE NULL]

(* The argument of findMany: { ...where, status: { notIn: [...] } } *)
findManyWhere(options) == [listWhere(options) EXCEPT !.status = NotIn(InProgress)]

Selected(execution, where) ==
    /\ execution.exists
    /\ Satisfies(execution.userId, where.userId)
    /\ Satisfies(execution.agentId, where.agentId)
    /\ Satisfies(execution.status, where.status)
    /\ where.gte # NULL => execution.startTime >= where.gte
    /\ where.lte # NULL => execution.startTime <= where.lte

(* orderBy startTime desc: every order of the ids S with start times        *)
(* non-increasing (rows with equal start time come in any order).           *)
OrderedDesc(table, S) ==
    {q \in [1..Cardinality(S) -> S] :
        /\ \A i, j \in DOMAIN q : i # j => q[i] # q[j]
        /\ \A i, j \in DOMAIN q : i < j => table[q[i]].startTime >= table[q[j]].startTime}

DEFAULT_RECEIPT_LIMIT == 50

receiptTake(options) ==
    IF TruthyNumber(options.limit) THEN options.limit ELSE DEFAULT_RECEIPT_LIMIT
receiptSkip(options) == IF TruthyNumber(options.offset) THEN options.offset ELSE 0

Min(a, b) == IF a <= b THEN a ELSE b
Max(a, b) == IF a >= b THEN a ELSE b

(* take / skip of findMany on an ordered result *)
Page(q, take, skip) == SubSeq(q, skip + 1, Min(Len(q), skip + take))

receiptSummary_OtherId(execution) ==
    [receiptId |-> <<"rcpt", execution.id, execution.endTime>>,
     executionId |-> execution.id, timestamp |-> execution.startTime,
     agentId |-> execution.agentId, status |-> mapStatus(execution.status)]

(* The ReceiptSummary listReceipts maps a row to *)
receiptSummary(execution) ==
    [receiptId |-> generateReceiptId(execution),
     executionId |-> execution.id, timestamp |-> execution.startTime,
     agentId |-> execution.agentId, status |-> mapStatus(execution.status)]

(* The results listReceipts(options) can return *)
listReceipts(table, options) ==
    LET where == findManyWhere(options)
        S == {id \in DOMAIN table : Selected(table[id], where)}
    IN  {[i \in DOMAIN Page(q, receiptTake(options), receiptSkip(options)) |->
             receiptSummary(table[Page(q, receiptTake(options), receiptSkip(options))[i]])] :
         q \in OrderedDesc(table, S)}

(* Queries callers make *)
Queries ==
    { NoOptions,
      [NoOptions EXCEPT !.userId = "u1"],
      [NoOptions EXCEPT !.agentId = "a2"],
      [NoOptions EXCEPT !.status = "SUCCESS"],
      [NoOptions EXCEPT !.status = "TIMEOUT"],
      [NoOptions EXCEPT !.startDate = 1],
      [NoOptions EXCEPT !.endDate = 1],
      [NoOptions EXCEPT !.limit = 1],
      [NoOptions EXCEPT !.offset = 1] }

OutcomeR(op, id, options, r) ==
    [op |-> op, id |-> id, options |-> options, err |-> r.err, receipts |-> r.receipts]

InitService ==
    /\ executions = [id \in ExecIds |-> NoExecution]
    /\ issued = [id \in ExecIds |-> {}]
    /\ lastR = OutcomeR("constructor", NONE, NoOptions, [err |-> OK, receipts |-> <<>>])
    /\ lastQ = [op |-> "none", stored |-> 0, limit |-> NULL, offset |-> NULL, size |-> 0]

(* The receipt ids handed out so far, per execution *)
Issue(receipts) ==
    [id \in ExecIds |->
        issued[id] \cup {receipts[i].receiptId :
                            i \in {j \in DOMAIN receipts : receipts[j].executionId = id}}]

(* Rows written by the execution service: created PENDING, then RUNNING,    *)
(* then one of the final statuses.                                          *)
CreateExecution(id, userId, agentId) ==
    /\ ~executions[id].exists
    /\ executions' = [executions EXCEPT ![id] =
                         [id |-> id, exists |-> TRUE, status |-> "PENDING",
                          startTime |-> now, endTime |-> NULL, userId |-> userId,
                          agentId |-> agentId]]
    /\ UNCHANGED <<issued, lastR, lastQ, escrowVars, pipeVars, configVars, auditVars, runtimeVars>>

StartExecution(id) ==
    /\ executions[id].exists /\ executions[id].status = "PENDING"
    /\ executions' = [executions EXCEPT ![id].status = "RUNNING"]
    /\ UNCHANGED <<issued, lastR, lastQ, escrowVars, pipeVars, configVars, auditVars, runtimeVars>>

FinishExecution(id, status) ==
    /\ executions[id].exists /\ executions[id].status \in InProgress
    /\ status \in ExecutionStatus \ InProgress
    /\ executions' = [executions EXCEPT ![id].status = status,
                                        ![id].endTime = IF status = "CANCELLED"
                                                        THEN NULL ELSE now]
    /\ UNCHANGED <<issued, lastR, lastQ, escrowVars, pipeVars, configVars, auditVars, runtimeVars>>

GenerateReceipt(executionId) ==
    LET r == generateReceipt(executions, executionId, now)
    IN  /\ lastR' = OutcomeR("generateReceipt", executionId, NoOptions, r)
        /\ issued' = Issue(r.receipts)
        /\ UNCHANGED <<executions, lastQ, escrowVars, pipeVars, configVars, auditVars, runtimeVars>>

ListReceipts(options) ==
    \E receipts \in listReceipts(executions, options) :
        /\ lastR' = OutcomeR("listReceipts", NONE, options,
                             [err |-> OK, receipts |-> receipts])
        /\ issued' = Issue(receipts)
        /\ UNCHANGED <<executions, lastQ, escrowVars, pipeVars, configVars, auditVars, runtimeVars>>

NextReceipts ==
    \/ CreateExecution("e1", "u1", "a1") \/ CreateExecution("e2", "u2", "a2")
    \/ \E id \in ExecIds : StartExecution(id)
    \/ \E id \in ExecIds, status \in ExecutionStatus \ InProgress : FinishExecution(id, status)
    \/ \E id \in ExecIds : GenerateReceipt(id)
    \/ \E options \in Queries : ListReceipts(options)
    \/ Tick(MaxTime)

(* Settlements of one hold next to the executions and their receipts *)
NextSettlement ==
    \/ CreateExecution("e1", "u1", "a1") \/ CreateExecution("e2", "u2", "a2")
    \/ \E id \in ExecIds : StartExecution(id)
    \/ \E id \in ExecIds : FinishExecution(id, "COMPLETED")
    \/ FinishExecution("e1", "CANCELLED")
    \/ \E id \in ExecIds : GenerateReceipt(id)
    \/ ListReceipts(NoOptions)
    \/ Deposit("user", "h1", 1, 10000, "USDC", NoCall)
    \/ Release(ORCHESTRATOR, "h1", NoCall)
    \/ Refund(ORCHESTRATOR, "h1", NoCall)
    \/ RegisterAgent(ADMIN, 1, "dev1")
    \/ SetSupportedToken(ADMIN, "USDC", TRUE)

(* Sizes of query results.  A query is given the number of records that    *)
(* pass its filters; the audit store keeps at most MAX_AUDIT_EVENTS events. *)

MAX_AUDIT_EVENTS == 10000
DEFAULT_AUDIT_LIMIT == 100

RowCounts == {0, 49, 50, 51, 100, 101, MAX_AUDIT_EVENTS, MaxRows}
Limits == {NULL, 0, 1, 50, 100, MAX_AUDIT_EVENTS, MaxRows}
Offsets == {NULL, 0, 1}

(* Length of Page(q, take, skip) for a q of n rows *)
PageSize(n, take, skip) == Max(0, Min(n, skip + take) - skip)

listReceiptsSize(matching, options) ==
    PageSize(matching, receiptTake(options), receiptSkip(options))

auditLimit(limit) == IF TruthyNumber(limit) THEN limit ELSE DEFAULT_AUDIT_LIMIT

(* Length of results.slice(-limit) in AuditLoggerService.query *)
querySize(enabled, matching, limit) ==
    IF ~enabled THEN 0 ELSE Min(matching, auditLimit(limit))

ListReceiptsSize(matching, limit, offset) ==
    /\ lastQ' = [op |-> "listReceipts", stored |-> matching, limit |-> limit,
                 offset |-> offset,
                 size |-> listReceiptsSize(matching, [NoOptions EXCEPT !.limit = limit,
                                                                       !.offset = offset])]
    /\ UNCHANGED <<executions, issued, lastR, escrowVars, pipeVars, configVars, auditVars, runtimeVars>>

QuerySize(enabled, matching, limit) ==
    /\ matching <= MAX_AUDIT_EVENTS
    /\ lastQ' = [op |-> "query", stored |-> matching, limit |-> limit, offset |-> NULL,
                 size |-> querySize(enabled, matching, limit)]
    /\ UNCHANGED <<executions, issued, lastR, escrowVars, pipeVars, configVars, auditVars, runtimeVars>>

NextQuery ==
    \/ \E matching \in RowCounts, limit \in Limits, offset \in Offsets :
          ListReceiptsSize(matching, limit, offset)
    \/ \E enabled \in BOOLEAN, matching \in RowCounts, limit \in Limits :
          QuerySize(enabled, matching, limit)

----------------------------------------------------------------------------
(* Compliance configuration: loadComplianceConfig, refreshComplianceConfig, *)
(* getComplianceStatus.                                                     *)

Toggles == {"geofence", "kyc", "agentRestrictions", "auditLogging", "runtimeIsolation"}

(* An environment variable is unset or holds a string *)
UNSET == "undefined"

(* The values tried for each variable *)
EnvChoices(tg) ==
    {UNSET, "true"} \cup (CASE tg = "kyc" -> {"TRUE"}
                            [] tg = "geofence" -> {"false"}
                            [] tg = "auditLogging" -> {"1"}
                            [] OTHER -> {})

loadComplianceConfig_AnyCase(e) == [tg \in Toggles |-> e[tg] \in {"true", "TRUE"}]

(* process.env.COMPLIANCE_..._ENABLED === 'true' *)
loadComplianceConfig(e) == [tg \in Toggles |-> e[tg] = "true"]

getComplianceStatus(config) ==
    [features |-> config,
     allEnabled |-> /\ config["geofence"] /\ config["kyc"] /\ config["agentRestrictions"]
                    /\ config["auditLogging"] /\ config["runtimeIsolation"]]

InitConfig ==
    /\ env = [tg \in Toggles |-> UNSET]
    /\ complianceConfig = loadComplianceConfig(env)
    /\ envAtLoad = env

(* The operator of the deployment sets or deletes an environment variable *)
SetEnv(tg, value) ==
    /\ env' = [env EXCEPT ![tg] = value]
    /\ UNCHANGED <<complianceConfig, envAtLoad, auditVars, escrowVars, pipeVars, serviceVars, runtimeVars>>

RefreshComplianceConfig ==
    /\ complianceConfig' = loadComplianceConfig(env)
    /\ envAtLoad' = env
    /\ UNCHANGED <<env, auditVars, escrowVars, pipeVars, serviceVars, runtimeVars>>

----------------------------------------------------------------------------
(* AuditLoggerService.  The store is a sequence of runs: a run stands for    *)
(* count events logged one after the other with the same supplied fields,   *)
(* counters first .. first + count - 1; a single log call adds a run of one. *)

Randoms == {"k3f9", "x0q2"}

(* Events callers log: the fields of Omit<AuditEvent, 'id' | 'timestamp'> *)
AuditInputs ==
    { [type |-> "COMPLIANCE_CHECK", severity |-> "info", userId |-> "u1",
       agentId |-> "a1", outcome |-> "allowed"],
      [type |-> "SECURITY_ALERT", severity |-> "critical", userId |-> "u2",
       agentId |-> NONE, outcome |-> "blocked"] }

(* audit_<timestamp>_<counter>_<random> *)
generateEventId(t, counter, random) == <<"audit", t, counter, random>>

fullEvent(input, t, counter, random) ==
    [id |-> generateEventId(t, counter, random), timestamp |-> t, type |-> input.type,
     severity |-> input.severity, userId |-> input.userId, agentId |-> input.agentId,
     outcome |-> input.outcome]

Run(event, first, count) == [event |-> event, first |-> first, count |-> count]

RECURSIVE StoreSize(_)
StoreSize(store) ==
    IF store = <<>> THEN 0 ELSE store[Len(store)].count + StoreSize(SubSeq(store, 1, Len(store) - 1))

(* store.slice(-k) for k > 0: the last k events *)
RECURSIVE SliceLast(_, _)
SliceLast(store, k) ==
    IF store = <<>> \/ k <= 0 THEN <<>>
    ELSE LET b == store[Len(store)]
             first == b.first + (b.count - k)
         IN  IF b.count >= k
             THEN <<Run([b.event EXCEPT !.id[3] = first], first, k)>>
             ELSE SliceLast(SubSeq(store, 1, Len(store) - 1), k - b.count) \o <<b>>

(* console.error / console.warn / console.log by severity, entry at the     *)
(* 'standard' log level.                                                    *)
consoleStream(severity) ==
    CASE severity \in {"critical", "error"} -> "error"
      [] severity = "warn" -> "warn"
      [] OTHER -> "log"

formatLogEntry(event) ==
    [id |-> event.id, type |-> event.type, severity |-> event.severity,
     outcome |-> event.outcome, userId |-> event.userId, agentId |-> event.agentId,
     timestamp |-> event.timestamp]

persist_NoCap(store, enabled, run) == IF enabled THEN Append(store, run) ELSE store

persist_Always(store, enabled, run) == SliceLast(Append(store, run), MAX_AUDIT_EVENTS)

(* this.events.push(fullEvent) and the trim to the last 10000, when enabled *)
persist(store, enabled, run) ==
    IF enabled
    THEN LET pushed == Append(store, run)
         IN  IF StoreSize(pushed) > MAX_AUDIT_EVENTS
             THEN SliceLast(pushed, MAX_AUDIT_EVENTS) ELSE pushed
    ELSE store

(* AuditFilter; a field left out is NONE, NULL or the empty set *)
NoFilter ==
    [startDate |-> NULL, endDate |-> NULL, type |-> {}, userId |-> NONE,
     agentId |-> NONE, outcome |-> NONE, severity |-> NONE, limit |-> NULL]

Passes(event, filter) ==
    /\ TruthyDate(filter.startDate) => event.timestamp >= filter.startDate
    /\ TruthyDate(filter.endDate) => event.timestamp <= filter.endDate
    /\ filter.type # {} => event.type \in filter.type
    /\ TruthyString(filter.userId) => event.userId = filter.userId
    /\ TruthyString(filter.agentId) => event.agentId = filter.agentId
    /\ TruthyString(filter.outcome) => event.outcome = filter.outcome
    /\ TruthyString(filter.severity) => event.severity = filter.severity

(* query(filter) *)
query(store, enabled, filter) ==
    IF ~enabled THEN <<>>
    ELSE SliceLast(SelectSeq(store, LAMBDA b : Passes(b.event, filter)),
                   auditLimit(filter.limit))

Filters ==
    { NoFilter,
      [NoFilter EXCEPT !.userId = "u1"],
      [NoFilter EXCEPT !.severity = "critical"],
      [NoFilter EXCEPT !.type = {"SECURITY_ALERT"}],
      [NoFilter EXCEPT !.startDate = 1],
      [NoFilter EXCEPT !.limit = 1],
      [NoFilter EXCEPT !.limit = 2] }

NoEvent == fullEvent([type |-> NONE, severity |-> NONE, userId |-> NONE, agentId |-> NONE,
                      outcome |-> NONE], 0, 0, NONE)

OutcomeA(op, input, event, console, results, filter, enabled) ==
    [op |-> op, input |-> input, event |-> event, console |-> console,
     results |-> results, filter |-> filter, enabled |-> enabled]

NoConsole == [stream |-> NONE, entry |-> formatLogEntry(NoEvent)]

InitAudit ==
    /\ events = <<>>
    /\ eventCounter = 0
    /\ unpersisted = {}
    /\ lastA = OutcomeA("constructor", NONE, NoEvent, NoConsole, <<>>, NoFilter, FALSE)

(* count log calls in a row with the same input, at the same time *)
LogRun(input, random, count) ==
    LET enabled == complianceConfig["auditLogging"]
        first == eventCounter + 1
        event == fullEvent(input, now, first, random)
    IN  /\ eventCounter' = eventCounter + count
        /\ events' = persist(events, enabled, Run(event, first, count))
        /\ unpersisted' = IF enabled THEN unpersisted
                          ELSE unpersisted \cup (first .. first + count - 1)
        /\ lastA' = OutcomeA("log", input, event,
                             [stream |-> consoleStream(event.severity),
                              entry |-> formatLogEntry(event)],
                             <<>>, NoFilter, enabled)
        /\ UNCHANGED <<configVars, escrowVars, pipeVars, serviceVars, runtimeVars>>

(* log(event) *)
AuditLog(input, random) ==
    /\ eventCounter < MaxEvents
    /\ LogRun(input, random, 1)

Query(filter) ==
    LET enabled == complianceConfig["auditLogging"]
    IN  /\ lastA' = OutcomeA("query", NONE, NoEvent, NoConsole,
                             query(events, enabled, filter), filter, enabled)
        /\ UNCHANGED <<events, eventCounter, unpersisted, configVars, escrowVars,
                       pipeVars, serviceVars, runtimeVars>>

(* clear() *)
Clear ==
    /\ events' = <<>>
    /\ lastA' = OutcomeA("clear", NONE, NoEvent, NoConsole, <<>>, NoFilter,
                         complianceConfig["auditLogging"])
    /\ UNCHANGED <<eventCounter, unpersisted, configVars, escrowVars, pipeVars, serviceVars, runtimeVars>>

NextAudit ==
    \/ \E input \in AuditInputs, random \in Randoms : AuditLog(input, random)
    \/ \E filter \in Filters : Query(filter)
    \/ \E value \in {UNSET, "true"} : SetEnv("auditLogging", value)
    \/ RefreshComplianceConfig
    \/ Clear
    \/ Tick(MaxTime)

----------------------------------------------------------------------------
(* Runtime configuration: RuntimeConfigSchema and validateRuntimeConfig.     *)
(* An input profile is an object whose keys may be left out: given = FALSE   *)
(* for a missing object, NULL for a missing number, NONE for a missing       *)
(* string.  A docker image is the sequence of the pieces of its string.      *)

Images ==
    { <<>>, <<"agent", ":1.0">>, <<"agent", ":latest">>, <<"agent", ":latest", "-arm">>,
      <<"registry", ":5000", "/agent", ":2.1">> }

DefaultResources == [cpuQuota |-> 50000, memoryMb |-> 512, timeoutSeconds |-> 300,
                     pidsLimit |-> 50]

OmittedResources == [given |-> TRUE, cpuQuota |-> NULL, memoryMb |-> NULL,
                     timeoutSeconds |-> NULL, pidsLimit |-> NULL]

ResourceInputs ==
    {[OmittedResources EXCEPT !.given = FALSE], OmittedResources}
    \cup {[OmittedResources EXCEPT !.cpuQuota = v] : v \in {999, 1000, 100000, 100001}}
    \cup {[OmittedResources EXCEPT !.memoryMb = v] : v \in {31, 32, 1024, 1025}}
    \cup {[OmittedResources EXCEPT !.timeoutSeconds = v] : v \in {0, 1, 600, 601}}
    \cup {[OmittedResources EXCEPT !.pidsLimit = v] : v \in {0, 1, 100, 101}}
    \cup {[OmittedResources EXCEPT !.cpuQuota = 999, !.pidsLimit = 101],
          [OmittedResources EXCEPT !.memoryMb = 1024, !.timeoutSeconds = 600]}

DefaultSecurity ==
    [networkEnabled |-> FALSE, readOnlyRootfs |-> TRUE, runAsNonRoot |-> TRUE,
     seccompProfile |-> "strict", noNewPrivileges |-> TRUE, capabilitiesDrop |-> <<"ALL">>]

OmittedSecurity ==
    [given |-> FALSE, networkEnabled |-> FALSE, readOnlyRootfs |-> TRUE,
     runAsNonRoot |-> TRUE, seccompProfile |-> NONE, noNewPrivileges |-> TRUE,
     capabilitiesDrop |-> <<"ALL">>]

SecurityInputs ==
    {OmittedSecurity}
    \cup [given : {TRUE}, networkEnabled : {FALSE}, readOnlyRootfs : {TRUE},
          runAsNonRoot : BOOLEAN, seccompProfile : {NONE}, noNewPrivileges : BOOLEAN,
          capabilitiesDrop : {<<"ALL">>, <<"NET_RAW", "ALL">>, <<"NET_RAW">>, <<>>}]
    \cup [given : {TRUE}, networkEnabled : BOOLEAN, readOnlyRootfs : {TRUE},
          runAsNonRoot : {TRUE}, seccompProfile : {NONE, "default"},
          noNewPrivileges : {TRUE}, capabilitiesDrop : {<<"ALL">>}]

(* img.includes(':latest') *)
includesLatest(img) == \E i \in DOMAIN img : img[i] = ":latest"

includes(array, x) == \E i \in DOMAIN array : array[i] = x

(* z.number().min(lo).max(hi).default(dflt): the issues of one limit *)
numberIssues(path, v, lo, hi) ==
    IF v = NULL THEN <<>>
    ELSE IF v < lo THEN <<<<path, "Number must be greater than or equal to", lo>>>>
    ELSE IF v > hi THEN <<<<path, "Number must be less than or equal to", hi>>>>
    ELSE <<>>

withDefault(v, dflt) == IF v = NULL THEN dflt ELSE v

dockerImageIssues(img) ==
    (IF Len(img) < 1
     THEN <<<<"dockerImage", "String must contain at least 1 character(s)", 1>>>>
     ELSE <<>>)
    \o (IF includesLatest(img)
        THEN <<<<"dockerImage", "Must use specific image tag, not :latest", 0>>>>
        ELSE <<>>)

(* ResourceLimitsSchema *)
resourceIssues_NoUpperBound(r) ==
    IF ~r.given THEN <<<<"resources", "Required", 0>>>>
    ELSE numberIssues("resources.cpuQuota", r.cpuQuota, 1000, 100001)
         \o numberIssues("resources.memoryMb", r.memoryMb, 32, 1025)
         \o numberIssues("resources.timeoutSeconds", r.timeoutSeconds, 1, 601)
         \o numberIssues("resources.pidsLimit", r.pidsLimit, 1, 101)

resourceIssues(r) ==
    IF ~r.given THEN <<<<"resources", "Required", 0>>>>
    ELSE numberIssues("resources.cpuQuota", r.cpuQuota, 1000, 100000)
         \o numberIssues("resources.memoryMb", r.memoryMb, 32, 1024)
         \o numberIssues("resources.timeoutSeconds", r.timeoutSeconds, 1, 600)
         \o numberIssues("resources.pidsLimit", r.pidsLimit, 1, 100)

parsedResources(r) ==
    [cpuQuota |-> withDefault(r.cpuQuota, DefaultResources.cpuQuota),
     memoryMb |-> withDefault(r.memoryMb, DefaultResources.memoryMb),
     timeoutSeconds |-> withDefault(r.timeoutSeconds, DefaultResources.timeoutSeconds),
     pidsLimit |-> withDefault(r.pidsLimit, DefaultResources.pidsLimit)]

(* SecuritySettingsSchema, with the default of RuntimeConfigSchema.security *)
parsedSecurity(sec) ==
    IF ~sec.given THEN DefaultSecurity
    ELSE [networkEnabled |-> sec.networkEnabled, readOnlyRootfs |-> sec.readOnlyRootfs,
          runAsNonRoot |-> sec.runAsNonRoot,
          seccompProfile |-> IF sec.seccompProfile = NONE THEN "strict"
                             ELSE sec.seccompProfile,
          noNewPrivileges |-> sec.noNewPrivileges,
          capabilitiesDrop |-> sec.capabilitiesDrop]

securityIssues(sec) ==
    LET c == parsedSecurity(sec)
    IN  (IF c.runAsNonRoot # TRUE
         THEN <<<<"security.runAsNonRoot", "Agents must run as non-root user", 0>>>>
         ELSE <<>>)
        \o (IF c.noNewPrivileges # TRUE
            THEN <<<<"security.noNewPrivileges", "Agents cannot escalate privileges", 0>>>>
            ELSE <<>>)
        \o (IF ~includes(c.capabilitiesDrop, "ALL")
            THEN <<<<"security.capabilitiesDrop", "Must drop ALL capabilities", 0>>>>
            ELSE <<>>)

(* RuntimeConfigSchema.parse(input): the issues of the ZodError it throws,  *)
(* none if it returns the parsed config.                                    *)
parseIssues(input) ==
    dockerImageIssues(input.dockerImage) \o resourceIssues(input.resources)
    \o securityIssues(input.security)

parsedConfig(input) ==
    [dockerImage |-> input.dockerImage, resources |-> parsedResources(input.resources),
     security |-> parsedSecurity(input.security)]

checkSecurityWarnings(config) ==
    (IF config.security.networkEnabled THEN <<"Network access enabled">> ELSE <<>>)
    \o (IF config.resources.memoryMb > 512 THEN <<"High memory limit">> ELSE <<>>)
    \o (IF config.resources.timeoutSeconds > 300 THEN <<"Long timeout">> ELSE <<>>)
    \o (IF config.security.seccompProfile # "strict" THEN <<"Using seccomp profile">>
        ELSE <<>>)

NoConfig == [dockerImage |-> <<>>, resources |-> DefaultResources,
             security |-> DefaultSecurity]

validateRuntimeConfig(input) ==
    LET issues == parseIssues(input)
    IN  IF issues = <<>>
        THEN [valid |-> TRUE, errors |-> <<>>,
              warnings |-> checkSecurityWarnings(parsedConfig(input)),
              hasConfig |-> TRUE, config |-> parsedConfig(input)]
        ELSE [valid |-> FALSE, errors |-> issues, warnings |-> <<>>,
              hasConfig |-> FALSE, config |-> NoConfig]

NoProfile == [dockerImage |-> <<>>, resources |-> [OmittedResources EXCEPT !.given = FALSE],
              security |-> OmittedSecurity]

InitRuntime ==
    /\ lastV = [called |-> FALSE, input |-> NoProfile,
                result |-> validateRuntimeConfig(NoProfile)]
    /\ lastS = [called |-> FALSE, allEnabled |-> FALSE]

ValidateRuntimeConfig(input) ==
    /\ lastV' = [called |-> TRUE, input |-> input, result |-> validateRuntimeConfig(input)]
    /\ UNCHANGED <<lastS, configVars, auditVars, escrowVars, pipeVars, serviceVars>>

GetComplianceStatus ==
    /\ lastS' = [called |-> TRUE,
                 allEnabled |-> getComplianceStatus(complianceConfig).allEnabled]
    /\ UNCHANGED <<lastV, configVars, auditVars, escrowVars, pipeVars, serviceVars>>

(* A caller validates a profile, changes one part of it and validates again *)
NextRuntime ==
    \/ \E img \in Images :
          ValidateRuntimeConfig([lastV.input EXCEPT !.dockerImage = img])
    \/ \E r \in ResourceInputs :
          ValidateRuntimeConfig([lastV.input EXCEPT !.resources = r])
    \/ \E sec \in SecurityInputs :
          ValidateRuntimeConfig([lastV.input EXCEPT !.security = sec])

NextConfig ==
    \/ \E tg \in Toggles : \E value \in EnvChoices(tg) : SetEnv(tg, value)
    \/ RefreshComplianceConfig
    \/ GetComplianceStatus

Init == InitEscrow /\ InitPipeline /\ InitService /\ InitConfig /\ InitAudit /\ InitRuntime

(* The deployment of the contract tests: fee of 250 basis points *)
InitDeployed == Init /\ platformFeePercentage = 250

(* Calls of the deployment: one paying user, one developer address, the     *)
(* token USDC switched on and off, the clock jumping past a hold's expiry.  *)
Next ==
    \/ \E id \in PaymentIds, agentId \in AgentIds, amount \in Amounts, token \in Tokens :
          Deposit("user", id, agentId, amount, token, NoCall)
    \/ \E sender \in {ORCHESTRATOR, "user"}, id \in PaymentIds : Release(sender, id, NoCall)
    \/ \E sender \in {ORCHESTRATOR, "user"}, id \in PaymentIds : Refund(sender, id, NoCall)
    \/ \E developer \in {"dev1", ZERO} : RegisterAgent(ADMIN, 1, developer)
    \/ \E supported \in BOOLEAN : SetSupportedToken(ADMIN, "USDC", supported)
    \/ \E bps \in Fees : SetPlatformFee(ADMIN, bps)
    \/ Tick(PAYMENT_EXPIRY + 1)

vars == <<escrowVars, pipeVars, serviceVars, configVars, auditVars, runtimeVars>>

Spec == Init /\ [][Next]_vars

(* Calls with token callbacks: any deposit, release or refund may be        *)
(* re-entered from its token transfer.                                      *)
NextReentrant ==
    \/ \E id \in PaymentIds, amount \in {39, 10000}, c \in Callbacks :
          Deposit("user", id, 1, amount, "USDC", c)
    \/ \E id \in PaymentIds, c \in Callbacks : Release(ORCHESTRATOR, id, c)
    \/ \E id \in PaymentIds, c \in Callbacks : Refund(ORCHESTRATOR, id, c)
    \/ RegisterAgent(ADMIN, 1, "dev1")
    \/ SetSupportedToken(ADMIN, "USDC", TRUE)

SpecReentrant == Init /\ [][NextReentrant]_vars

SpecPipeline == InitDeployed /\ [][NextPipeline]_vars

(* Calls around a hold's expiry: the clock advances one day at a time *)
NextTime ==
    \/ \E id \in PaymentIds : Deposit("user", id, 1, 10000, "USDC", NoCall)
    \/ \E id \in PaymentIds : Release(ORCHESTRATOR, id, NoCall)
    \/ \E id \in PaymentIds : Refund(ORCHESTRATOR, id, NoCall)
    \/ RegisterAgent(ADMIN, 1, "dev1")
    \/ SetSupportedToken(ADMIN, "USDC", TRUE)
    \/ Tick(1)

SpecTime == InitDeployed /\ [][NextTime]_vars

SpecReceipts == InitDeployed /\ [][NextReceipts]_vars

SpecSettlement == InitDeployed /\ [][NextSettlement]_vars

SpecQuery == InitDeployed /\ [][NextQuery]_vars

SpecAudit == InitDeployed /\ [][NextAudit]_vars

(* The audit store at its cap: log calls one at a time and in bursts.  The  *)
(* calls followed are the first MaxEvents and those from the one that fills *)
(* the store to MaxEvents past it; a burst leads from the former to the     *)
(* latter.                                                                  *)
Bursts == {1, MAX_AUDIT_EVENTS - 1, MAX_AUDIT_EVENTS}

MaxLogged == MAX_AUDIT_EVENTS + MaxEvents

LogBurst(input, random, count) ==
    /\ eventCounter + count <= MaxLogged
    /\ \/ eventCounter + count <= MaxEvents
       \/ eventCounter + count >= MAX_AUDIT_EVENTS - 1
    /\ LogRun(input, random, count)

NextAuditCap ==
    \/ \E input \in AuditInputs, count \in Bursts : LogBurst(input, "k3f9", count)
    \/ \E value \in {UNSET, "true"} : SetEnv("auditLogging", value)
    \/ RefreshComplianceConfig
    \/ Clear

SpecAuditCap == InitDeployed /\ [][NextAuditCap]_vars

(* Holds under administration: after a deposit the admin changes the fee,   *)
(* withdraws the token's support and registers the agent anew, and time     *)
(* passes, while the orchestrator settles.                                  *)
NextAdmin ==
    \/ \E id \in PaymentIds : Deposit("user", id, 1, 10000, "USDC", NoCall)
    \/ \E id \in PaymentIds : Release(ORCHESTRATOR, id, NoCall)
    \/ \E id \in PaymentIds : Refund(ORCHESTRATOR, id, NoCall)
    \/ \E developer \in Developers : RegisterAgent(ADMIN, 1, developer)
    \/ \E supported \in BOOLEAN : SetSupportedToken(ADMIN, "USDC", supported)
    \/ SetPlatformFee(ADMIN, MAX_PLATFORM_FEE)
    \/ Tick(PAYMENT_EXPIRY + 1)

SpecAdmin == InitDeployed /\ [][NextAdmin]_vars

(* The orchestrator does not leave a hold Escrowed for ever without calling *)
(* refund on it.                                                            *)
OrchestratorRefunds(id) ==
    /\ payments[id].status = "Escrowed"
    /\ Refund(ORCHESTRATOR, id, NoCall)

SpecAdminFair ==
    SpecAdmin /\ \A id \in PaymentIds : WF_vars(OrchestratorRefunds(id))

SpecRuntime == InitDeployed /\ [][NextRuntime]_vars

SpecConfig == InitDeployed /\ [][NextConfig]_vars

----------------------------------------------------------------------------
(* Properties of the escrow contract *)

Terminal == {"Released", "Refunded"}
Settles(l, id) == l.op \in {"release", "refund"} /\ l.id = id
Callers == {ORCHESTRATOR, ADMIN, "user"}

(* C1: release and refund of a hold are mutually exclusive and exactly-once: *)
(* a settlement call succeeds only on an Escrowed hold and makes it          *)
(* terminal; on a terminal hold every release or refund call, by any caller, *)
(* fails (for an orchestrator with "Payment not in escrow", the contract's   *)
(* AlreadyTerminal) and changes neither the hold nor any balance.            *)
C1_SettlementExactlyOnce ==
    /\ [](\A id \in PaymentIds, sender \in Callers :
            payments[id].status \in Terminal =>
               LET rel == releasePayment(Cur, sender, now, id, NoCall)
                   ref == refundPayment(Cur, sender, now, id, NoCall)
               IN  /\ rel.err # OK /\ rel.s = Cur
                   /\ ref.err # OK /\ ref.s = Cur
                   /\ hasRole("ORCHESTRATOR_ROLE", sender)
                         => /\ rel.err = "Payment not in escrow"
                            /\ ref.err = "Payment not in escrow")
    /\ [][\A id \in PaymentIds :
            /\ (Settles(last', id) /\ last'.err = OK)
                  => (payments[id].status = "Escrowed" /\ payments'[id].status \in Terminal)
            /\ payments[id].status \in Terminal =>
                  /\ payments'[id] = payments[id]
                  /\ Settles(last', id) =>
                        /\ last'.err # OK
                        /\ UNCHANGED <<payments, balances>>
         ]_vars

C1_Witness ==
    /\ last.op \in {"release", "refund"}
    /\ last.sender = ORCHESTRATOR
    /\ last.err = "Payment not in escrow"
    /\ payments[last.id].status = "Refunded"

(* C3: a successful release of a hold of amount A under the fee f in force   *)
(* credits the platform floor(A*f/10000) and the payee A minus that, the two *)
(* credits summing to A, all taken from the escrow's balance.                *)
C3_FeeSplit ==
    [][(last'.op = "release" /\ last'.err = OK) =>
         LET p == payments[last'.id]
             f == platformFeePercentage
             fee == (p.amount * f) \div 10000
             platformCredit == balances'[p.token][platformFeeRecipient]
                                  - balances[p.token][platformFeeRecipient]
             payeeCredit == balances'[p.token][p.developer] - balances[p.token][p.developer]
         IN  /\ f \in 0..1000
             /\ fee * 10000 <= p.amount * f /\ p.amount * f < (fee + 1) * 10000
             /\ platformCredit = fee
             /\ payeeCredit = p.amount - fee
             /\ platformCredit + payeeCredit = p.amount
             /\ balances'[p.token][ESCROW] = balances[p.token][ESCROW] - p.amount
             /\ (p.amount = 10000 /\ f = 250) => (payeeCredit = 9750 /\ platformCredit = 250)
      ]_vars

C3_Witness ==
    /\ last.op = "release" /\ last.err = OK
    /\ payments[last.id].amount = 39
    /\ platformFeePercentage = 1000
    /\ balances["USDC"][platformFeeRecipient] = 3
    /\ balances["USDC"]["dev1"] = 36

(* What a release of hold id would pay, by account *)
ReleaseWouldPay(id) ==
    releasePayment(Cur, ORCHESTRATOR, payments[id].createdAt, id, NoCall).s.balances

(* C4: the fee applied at release is the fee in force when the hold was      *)
(* deposited: a setPlatformFee call between deposit and release changes      *)
(* nothing of what the release of an existing hold pays.                     *)
C4_FeeSnapshotAtDeposit ==
    [][last'.op = "setPlatformFee" =>
         \A id \in PaymentIds :
            payments[id].status = "Escrowed" => ReleaseWouldPay(id)' = ReleaseWouldPay(id)
      ]_vars

(* C9 as claimed: once a hold id is in use, every further deposit under it   *)
(* fails with "Payment already exists" (DuplicateHold) and changes nothing.  *)
C9_DuplicateAlwaysDuplicateHold ==
    \A id \in PaymentIds, agentId \in AgentIds, amount \in Amounts, token \in Tokens :
        payments[id].user # ZERO =>
            LET r == depositPayment(Cur, "user", now, id, agentId, amount, token, NoCall)
            IN  r.err = "Payment already exists" /\ r.s = Cur

(* C9 amended: once a hold id is in use, every further deposit under it      *)
(* fails and leaves the record and all balances unchanged, whatever the      *)
(* hold's status; the error is "Payment already exists" whenever the token   *)
(* of the call is supported, and "Token not supported" otherwise.            *)
C9_DuplicateRejected ==
    \A id \in PaymentIds, agentId \in AgentIds, amount \in Amounts, token \in Tokens :
        payments[id].user # ZERO =>
            LET r == depositPayment(Cur, "user", now, id, agentId, amount, token, NoCall)
            IN  /\ r.s = Cur
                /\ r.err = IF supportedTokens[token] THEN "Payment already exists"
                           ELSE "Token not supported"

C9_Witness ==
    /\ last.op = "deposit"
    /\ last.err = "Payment already exists"
    /\ payments[last.id].status = "Released"

(* C10: a deposit naming an unregistered agent, a non-positive amount or an  *)
(* unsupported token is rejected with nothing changed, so the id stays       *)
(* unused, and a later valid deposit under the same id is accepted.          *)
C10_InvalidDepositRejected ==
    \A id \in PaymentIds, agentId \in AgentIds, amount \in Amounts, token \in Tokens :
        LET r == depositPayment(Cur, "user", now, id, agentId, amount, token, NoCall)
            invalid == \/ agentDevelopers[agentId] = ZERO
                       \/ amount <= 0
                       \/ ~supportedTokens[token]
        IN  /\ invalid =>
                  /\ r.err # OK
                  /\ r.s = Cur
                  /\ payments[id].user = ZERO =>
                        r.err \in {"Token not supported", "Agent not registered",
                                   "Amount must be positive"}
            /\ (~invalid /\ payments[id].user = ZERO /\ balances[token]["user"] >= amount)
                  => /\ r.err = OK
                     /\ r.s.payments[id].status = "Escrowed"
                     /\ r.s.payments[id].amount = amount

C10_Witness ==
    /\ last.op = "deposit"
    /\ last.err = "Amount must be positive"
    /\ payments[last.id].user = ZERO
    /\ \E other \in PaymentIds : payments[other].status = "Escrowed"

(* Sum of an account's balance change over a step, for token tok *)
Credit(tok, a) == balances'[tok][a] - balances[tok][a]

SameHoldReentry(l, id) ==
    /\ Settles(l, id)
    /\ l.cb.op \in {"release", "refund"}
    /\ l.cb.id = id

(* C2 as claimed: when a settlement call on an Escrowed hold is re-entered   *)
(* by a settlement call on the same hold, exactly one of the two succeeds.   *)
C2_ExactlyOneWinner ==
    [][\A id \in PaymentIds :
         (payments[id].status = "Escrowed" /\ SameHoldReentry(last', id))
            => ((last'.err = OK) # (last'.nested = OK))
      ]_vars

(* C2 amended: the nested settlement call on the same hold always fails; the *)
(* outer call succeeds exactly when the token does not let that failure      *)
(* revert the transfer; if it succeeds the hold is terminal and the escrow   *)
(* has paid out the hold's amount exactly once, to the payee and platform    *)
(* (release) or to the payer (refund); if it fails nothing has changed and   *)
(* the hold is still Escrowed.                                               *)
C2_AtMostOneWinner ==
    [][\A id \in PaymentIds :
         (payments[id].status = "Escrowed" /\ SameHoldReentry(last', id)) =>
            LET p == payments[id]
            IN  /\ last'.nested \notin {OK, "none"}
                /\ (last'.err = OK) <=> ~last'.cb.propagate
                /\ IF last'.err = OK
                   THEN /\ payments'[id].status =
                              (IF last'.op = "release" THEN "Released" ELSE "Refunded")
                        /\ Credit(p.token, ESCROW) = 0 - p.amount
                        /\ IF last'.op = "release"
                           THEN /\ Credit(p.token, p.developer)
                                      + Credit(p.token, platformFeeRecipient) = p.amount
                                /\ Credit(p.token, p.user) = 0
                           ELSE /\ Credit(p.token, p.user) = p.amount
                                /\ Credit(p.token, p.developer) = 0
                                /\ Credit(p.token, platformFeeRecipient) = 0
                   ELSE UNCHANGED <<payments, balances>>
      ]_vars

C2_Witness ==
    /\ last.op = "release" /\ last.err = OK
    /\ last.cb.op = "release" /\ last.cb.id = last.id
    /\ last.nested = "ReentrancyGuard: reentrant call"
    /\ payments[last.id].status = "Released"
    /\ balances[payments[last.id].token][ESCROW] = 0

----------------------------------------------------------------------------
(* Expiry *)

Expired(id) == now > payments[id].expiresAt

(* Sum of the amounts of the Escrowed holds in token tok *)
RECURSIVE EscrowedSum(_, _)
EscrowedSum(tok, ids) ==
    IF ids = {} THEN 0
    ELSE LET id == CHOOSE x \in ids : TRUE
         IN  (IF payments[id].status = "Escrowed" /\ payments[id].token = tok
              THEN payments[id].amount ELSE 0) + EscrowedSum(tok, ids \ {id})

(* C11: a hold expires 7 days after its creation; an orchestrator's release  *)
(* of an Escrowed hold past its expiry fails with "Payment expired" (the     *)
(* contract's HoldExpired) and leaves the hold Escrowed and every balance    *)
(* unchanged; at or before the expiry a release is never rejected for expiry.*)
C11_ReleaseExpiry ==
    [][\A id \in PaymentIds :
          (/\ last'.op = "release" /\ last'.id = id /\ last'.sender = ORCHESTRATOR
           /\ payments[id].status = "Escrowed") =>
              /\ payments[id].expiresAt = payments[id].createdAt + PAYMENT_EXPIRY
              /\ Expired(id) =>
                    /\ last'.err = "Payment expired"
                    /\ payments'[id].status = "Escrowed"
                    /\ UNCHANGED <<payments, balances>>
              /\ ~Expired(id) => last'.err # "Payment expired"
      ]_vars

C11_Witness ==
    /\ last.op = "release" /\ last.err = "Payment expired"
    /\ payments[last.id].status = "Escrowed"
    /\ now = payments[last.id].expiresAt + 1

(* C12: an orchestrator's refund of an Escrowed hold succeeds, expired or    *)
(* not: the hold becomes Refunded, the payer is credited the whole deposited *)
(* amount out of the escrow, and the payee and the platform get nothing.     *)
C12_RefundReturnsAll ==
    [][\A id \in PaymentIds :
          (/\ last'.op = "refund" /\ last'.id = id /\ last'.sender = ORCHESTRATOR
           /\ payments[id].status = "Escrowed") =>
              LET p == payments[id]
              IN  /\ last'.err = OK
                  /\ payments'[id] = [p EXCEPT !.status = "Refunded"]
                  /\ balances'[p.token][p.user] = balances[p.token][p.user] + p.amount
                  /\ balances'[p.token][ESCROW] = balances[p.token][ESCROW] - p.amount
                  /\ balances'[p.token][p.developer] = balances[p.token][p.developer]
                  /\ balances'[p.token][platformFeeRecipient]
                        = balances[p.token][platformFeeRecipient]
      ]_vars

C12_Witness ==
    /\ last.op = "refund" /\ last.err = OK
    /\ payments[last.id].status = "Refunded"
    /\ Expired(last.id)
    /\ balances["USDC"]["user"] = UserFunds

(* C13: the passage of time changes no hold and no balance; an Escrowed     *)
(* hold past its expiry keeps its funds in the escrow and stays Escrowed     *)
(* until a refund call on its id turns it Refunded.                          *)
C13_ExpiryIsAdvisory ==
    /\ [](\A tok \in Tokens : balances[tok][ESCROW] = EscrowedSum(tok, PaymentIds))
    /\ [][/\ last'.op = "tick" => UNCHANGED <<payments, balances>>
          /\ \A id \in PaymentIds :
                (/\ payments[id].status = "Escrowed" /\ Expired(id)
                 /\ payments'[id] # payments[id]) =>
                    /\ last'.op = "refund" /\ last'.id = id /\ last'.err = OK
                    /\ payments'[id].status = "Refunded"
         ]_vars

C13_Witness ==
    /\ last.op = "tick"
    /\ \E id \in PaymentIds :
          /\ payments[id].status = "Escrowed"
          /\ Expired(id)
          /\ balances[payments[id].token][ESCROW] >= payments[id].amount

----------------------------------------------------------------------------
(* Lifecycle, fee ceiling, roles *)

(* A hold's status changed from a to b in a step of the call op on its id *)
Moves(id, a, b, op) ==
    /\ payments[id].status = a /\ payments'[id].status = b
    /\ last'.op = op /\ last'.id = id /\ last'.err = OK

(* C14: a hold's status follows the lifecycle graph: a successful deposit    *)
(* creates it directly in Escrowed, the only later changes are Escrowed to   *)
(* Released by release and Escrowed to Refunded by refund, Released and      *)
(* Refunded are never left, and a release or refund of an id never deposited *)
(* fails (for an orchestrator with "Payment not in escrow", the contract's   *)
(* NotEscrowed) and creates no record.                                       *)
C14_Lifecycle ==
    /\ [](\A id \in PaymentIds :
            /\ payments[id].status \in {"Pending", "Escrowed", "Released", "Refunded"}
            /\ payments[id].status = "Pending" <=> payments[id] = EmptyPayment)
    /\ [][\A id \in PaymentIds :
            /\ payments'[id].status # payments[id].status =>
                  \/ Moves(id, "Pending", "Escrowed", "deposit")
                  \/ Moves(id, "Escrowed", "Released", "release")
                  \/ Moves(id, "Escrowed", "Refunded", "refund")
            /\ (last'.op = "deposit" /\ last'.id = id /\ last'.err = OK) =>
                  Moves(id, "Pending", "Escrowed", "deposit")
            /\ payments[id].status \in Terminal => payments'[id].status = payments[id].status
            /\ (Settles(last', id) /\ payments[id] = EmptyPayment) =>
                  /\ last'.err # OK
                  /\ hasRole("ORCHESTRATOR_ROLE", last'.sender)
                        => last'.err = "Payment not in escrow"
                  /\ payments'[id] = EmptyPayment
                  /\ UNCHANGED <<payments, balances>>
         ]_vars

C14_Witness ==
    /\ last.op \in {"release", "refund"}
    /\ last.sender = ORCHESTRATOR
    /\ last.err = "Payment not in escrow"
    /\ payments[last.id] = EmptyPayment
    /\ \E id \in PaymentIds : payments[id].status = "Released"

(* C15: the platform fee never exceeds MAX_PLATFORM_FEE (1000 bps): the      *)
(* constructor and setPlatformFee reject any larger value, and a rejected    *)
(* setPlatformFee leaves the fee as it was.                                  *)
C15_FeeCeiling ==
    /\ [](/\ platformFeePercentage \in 0..MAX_PLATFORM_FEE
          /\ MAX_PLATFORM_FEE = 1000
          /\ \A bps \in Fees : bps > MAX_PLATFORM_FEE =>
                /\ constructorRequire(platformFeeRecipient, bps) = "Fee too high"
                /\ \A sender \in Callers :
                      LET r == setPlatformFee(Cur, sender, bps)
                      IN  r.err # OK /\ r.s = Cur)
    /\ [][(last'.op = "setPlatformFee" /\ last'.err # OK) =>
             platformFeePercentage' = platformFeePercentage]_vars

C15_Witness ==
    /\ last.op = "setPlatformFee" /\ last.err = "Fee too high"
    /\ platformFeePercentage = MAX_PLATFORM_FEE

(* C16: release and refund succeed only for a caller holding the             *)
(* orchestrator role: called by anyone else, the hold's payer and payee      *)
(* included, they fail and leave the hold and every balance unchanged.       *)
C16_OrchestratorOnly ==
    /\ [](\A id \in PaymentIds :
            \A sender \in Callers \cup {payments[id].user, payments[id].developer} :
               ~hasRole("ORCHESTRATOR_ROLE", sender) =>
                  LET rel == releasePayment(Cur, sender, now, id, NoCall)
                      ref == refundPayment(Cur, sender, now, id, NoCall)
                  IN  /\ rel.err = "AccessControl: missing role" /\ rel.s = Cur
                      /\ ref.err = "AccessControl: missing role" /\ ref.s = Cur)
    /\ [][\A id \in PaymentIds :
            Settles(last', id) =>
               /\ last'.err = OK => hasRole("ORCHESTRATOR_ROLE", last'.sender)
               /\ ~hasRole("ORCHESTRATOR_ROLE", last'.sender) =>
                     /\ last'.err # OK
                     /\ UNCHANGED <<payments, balances>>
         ]_vars

C16_Witness ==
    /\ last.op \in {"release", "refund"}
    /\ last.err = "AccessControl: missing role"
    /\ payments[last.id].status = "Escrowed"
    /\ last.sender = payments[last.id].user

----------------------------------------------------------------------------
(* Receipts *)

Final(id) == executions[id].exists /\ executions[id].status \notin InProgress

(* Positions of execution id in a list of receipts *)
Places(receipts, id) == {i \in DOMAIN receipts : receipts[i].executionId = id}

SettlementEvent(status) ==
    IF status = "Released" THEN "PaymentReleased" ELSE "PaymentRefunded"

C18_ReceiptIdReproducible ==
    /\ \A id \in ExecIds :
          /\ Cardinality(issued[id]) <= 1
          /\ Final(id) =>
                LET g == generateReceipt(executions, id, now)
                IN  \A options \in Queries :
                       \A receipts \in listReceipts(executions, options) :
                          /\ Cardinality(Places(receipts, id)) <= 1
                          /\ \A i \in Places(receipts, id) :
                                /\ receipts[i].receiptId = g.receipts[1].receiptId
                                /\ issued[id] \subseteq {receipts[i].receiptId}
    /\ \A i, j \in DOMAIN lastR.receipts :
          lastR.receipts[i].executionId = lastR.receipts[j].executionId => i = j

C18_Witness ==
    /\ lastR.op = "generateReceipt" /\ lastR.err = OK
    /\ executions[lastR.id].startTime = 0 /\ executions[lastR.id].status = "CANCELLED"
    /\ lastR.receipts[1].completedAt = MaxTime
    /\ issued[lastR.id] = {lastR.receipts[1].receiptId}

(* C19: a receipt query returns only receipts that satisfy every filter      *)
(* supplied: the status asked for, the user or agent asked for, a start time *)
(* inside the range asked for.                                               *)
C19_FiltersHonoured ==
    lastR.op = "listReceipts" =>
        \A i \in DOMAIN lastR.receipts :
            LET r == lastR.receipts[i]
                o == lastR.options
            IN  /\ o.status # NONE => r.status = o.status
                /\ o.userId # NONE => executions[r.executionId].userId = o.userId
                /\ o.agentId # NONE => r.agentId = o.agentId
                /\ o.startDate # NULL => r.timestamp >= o.startDate
                /\ o.endDate # NULL => r.timestamp <= o.endDate

(* C20: the number of results of a receipt query or an audit-event query    *)
(* never exceeds a hard maximum, whatever limit the caller supplies (the     *)
(* largest ceiling the services contain is the audit store's 10000); with no *)
(* limit supplied the default cap applies, 50 receipts and 100 audit events. *)
C20_ResultSizeCapped ==
    /\ (lastQ.op = "listReceipts" /\ lastQ.limit = NULL) => lastQ.size <= 50
    /\ (lastQ.op = "query" /\ lastQ.limit = NULL) => lastQ.size <= 100
    /\ lastQ.size <= MAX_AUDIT_EVENTS

----------------------------------------------------------------------------
(* Conservation and immutability of holds *)

RECURSIVE TotalSupply(_, _)
TotalSupply(tok, accounts) ==
    IF accounts = {} THEN 0
    ELSE LET a == CHOOSE x \in accounts : TRUE
         IN  balances[tok][a] + TotalSupply(tok, accounts \ {a})

(* Amounts of the holds in token tok with the given status *)
RECURSIVE SumByStatus(_, _, _)
SumByStatus(tok, status, ids) ==
    IF ids = {} THEN 0
    ELSE LET id == CHOOSE x \in ids : TRUE
         IN  (IF payments[id].status = status /\ payments[id].token = tok
              THEN payments[id].amount ELSE 0) + SumByStatus(tok, status, ids \ {id})

Terms(p) == [user |-> p.user, developer |-> p.developer, agentId |-> p.agentId,
             amount |-> p.amount, token |-> p.token, createdAt |-> p.createdAt,
             expiresAt |-> p.expiresAt]

(* C27: once deposited, a hold keeps its payer, payee, agent, amount, token, *)
(* creation time and expiry and is never deleted; a step that changes a     *)
(* deposited hold is a successful release or refund of that id, and it      *)
(* changes only that hold's status and no other hold's record.              *)
C27_HoldTermsImmutable ==
    [][\A id \in PaymentIds :
         payments[id].status # "Pending" =>
            /\ Terms(payments'[id]) = Terms(payments[id])
            /\ payments'[id].status # "Pending"
            /\ payments'[id] # payments[id] =>
                  /\ last'.op \in {"release", "refund"}
                  /\ last'.id = id /\ last'.err = OK
                  /\ \A other \in PaymentIds \ {id} : payments'[other] = payments[other]
      ]_vars

C27_Witness ==
    /\ last.op = "refund" /\ last.err = OK
    /\ payments[last.id].status = "Refunded"
    /\ payments[last.id].amount = 10000
    /\ payments[last.id].expiresAt < now
    /\ payments[last.id].token = "USDC" /\ ~supportedTokens["USDC"]
    /\ \E other \in PaymentIds : payments[other].status = "Escrowed"

(* C28: no Escrowed hold is stuck: whatever the fee, the token's support,   *)
(* the agent's registration and the time, an orchestrator's refund of an    *)
(* Escrowed hold is accepted and turns it Refunded; so when the orchestrator *)
(* keeps settling, every Escrowed hold becomes Released or Refunded.        *)
C28_NoStuckHold ==
    /\ [][\A id \in PaymentIds :
            (/\ payments[id].status = "Escrowed"
             /\ last'.op = "refund" /\ last'.id = id
             /\ hasRole("ORCHESTRATOR_ROLE", last'.sender))
               => /\ last'.err = OK
                  /\ payments'[id].status = "Refunded"
                  /\ balances'[payments[id].token][payments[id].user]
                        = balances[payments[id].token][payments[id].user]
                            + payments[id].amount
         ]_vars
    /\ \A id \in PaymentIds :
          (payments[id].status = "Escrowed")
             ~> (payments[id].status \in {"Released", "Refunded"})

C28_Witness ==
    /\ last.op = "refund" /\ last.err = OK
    /\ payments[last.id].status = "Refunded"
    /\ ~supportedTokens[payments[last.id].token]
    /\ platformFeePercentage = MAX_PLATFORM_FEE
    /\ agentDevelopers[payments[last.id].agentId] # payments[last.id].developer
    /\ Expired(last.id)

(* C29: a deposit records as the hold's payee the address registered for   *)
(* its agent at that moment; registering the agent anew changes no existing *)
(* hold; a release pays the payee's share to the recorded address and       *)
(* nothing to any other developer, whoever is registered for the agent now. *)
C29_PayeeFixedAtDeposit ==
    [][/\ \A id \in PaymentIds :
            (payments[id].status = "Pending" /\ payments'[id].status # "Pending") =>
                payments'[id].developer = agentDevelopers[payments'[id].agentId]
       /\ last'.op = "registerAgent" => payments' = payments
       /\ \A id \in PaymentIds :
            (/\ payments[id].status = "Escrowed" /\ payments'[id].status = "Released"
             /\ last'.op = "release" /\ last'.id = id /\ last'.err = OK) =>
                LET p == payments[id]
                    fee == PlatformFee(p.amount, platformFeePercentage)
                IN  /\ balances'[p.token][p.developer]
                          = balances[p.token][p.developer] + (p.amount - fee)
                    /\ \A d \in Developers \ {p.developer} :
                          balances'[p.token][d] = balances[p.token][d]
      ]_vars

C29_Witness ==
    /\ last.op = "release" /\ last.err = OK
    /\ payments[last.id].status = "Released"
    /\ payments[last.id].developer = "dev1"
    /\ agentDevelopers[payments[last.id].agentId] = "dev2"
    /\ balances["USDC"]["dev1"] > 0
    /\ balances["USDC"]["dev2"] = 0

----------------------------------------------------------------------------
(* Operations on different holds *)

(* The call c, made on its own in state s at time t, passes its requires    *)
(* and its token transfer                                                    *)
MeetsPreconditions(s, t, c) ==
    CASE c.op = "release" -> releaseRequire(s, c.sender, t, c.id) = OK
      [] c.op = "refund" -> refundRequire(s, c.sender, c.id) = OK
      [] c.op = "deposit" ->
            /\ depositRequire(s, c.sender, c.id, c.agentId, c.amount, c.token) = OK
            /\ s.balances[c.token][c.sender] >= c.amount
      [] OTHER -> FALSE

(* C22: while a release or refund of one hold is in flight (inside its      *)
(* token transfer), a deposit, release or refund that names a different     *)
(* hold and meets its own preconditions is accepted.                        *)
C22_DifferentHoldsIndependent ==
    [][(/\ last' # last
        /\ last'.op \in {"release", "refund"}
        /\ last'.nested # "none"
        /\ last'.cb.id # last'.id
        /\ MeetsPreconditions(Cur, now, last'.cb))
          => last'.nested = OK
      ]_vars

----------------------------------------------------------------------------
(* Audit log and compliance configuration.                                  *)

Counters(run) == run.first .. (run.first + run.count - 1)

Supplied(event, input) ==
    /\ event.type = input.type /\ event.severity = input.severity
    /\ event.userId = input.userId /\ event.agentId = input.agentId
    /\ event.outcome = input.outcome

ReceiptsMostRecentFirst ==
    lastR.op = "listReceipts" =>
        \A i, j \in DOMAIN lastR.receipts :
            i < j => lastR.receipts[i].timestamp >= lastR.receipts[j].timestamp

(* The events of the last query call come latest timestamp first *)
AuditMostRecentFirst ==
    lastA.op = "query" =>
        \A i, j \in DOMAIN lastA.results :
            i < j => lastA.results[i].event.timestamp >= lastA.results[j].event.timestamp

(* C23: receipt queries and audit-event queries return their results most   *)
(* recent record first.                                                     *)
C23_MostRecentFirst == ReceiptsMostRecentFirst /\ AuditMostRecentFirst

(* The counters of the events in a store *)
CounterSet(store) == UNION {Counters(store[i]) : i \in DOMAIN store}

(* C30: after any log call the store holds at most 10000 events, in logging *)
(* order; a log call with persistence enabled leaves in the store exactly   *)
(* the newest events, up to 10000, of those stored before and those just    *)
(* logged, so what is discarded is older than everything kept.              *)
C30_StoreCapped ==
    /\ [](StoreSize(events) <= MAX_AUDIT_EVENTS)
    /\ [](\A i, j \in DOMAIN events :
             i < j => events[i].first + events[i].count <= events[j].first)
    /\ [][(eventCounter' # eventCounter /\ lastA'.enabled) =>
            LET logged == (eventCounter + 1) .. eventCounter'
                all == CounterSet(events) \cup logged
                kept == CounterSet(events')
            IN  /\ kept \subseteq all
                /\ Cardinality(kept) = Min(Cardinality(all), MAX_AUDIT_EVENTS)
                /\ \A c \in all \ kept : c < events'[1].first
                /\ Cardinality(kept) = StoreSize(events')
         ]_vars

C30_Witness ==
    /\ lastA.op = "log" /\ lastA.enabled
    /\ StoreSize(events) = MAX_AUDIT_EVENTS
    /\ Len(events) >= 2
    /\ events[1].first > 1
    /\ unpersisted # {}

----------------------------------------------------------------------------
(* Runtime profiles and compliance toggles *)

OutOfBounds(v, lo, hi) == v # NULL /\ (v < lo \/ v > hi)

(* The profile asks for something the platform forbids *)
Unsafe(input) ==
    \/ /\ input.security.given
       /\ \/ ~input.security.runAsNonRoot
          \/ ~input.security.noNewPrivileges
          \/ \A i \in DOMAIN input.security.capabilitiesDrop :
                input.security.capabilitiesDrop[i] # "ALL"
    \/ \E i \in DOMAIN input.dockerImage : input.dockerImage[i] = ":latest"
    \/ /\ input.resources.given
       /\ \/ OutOfBounds(input.resources.cpuQuota, 1000, 100000)
          \/ OutOfBounds(input.resources.memoryMb, 32, 1024)
          \/ OutOfBounds(input.resources.timeoutSeconds, 1, 600)
          \/ OutOfBounds(input.resources.pidsLimit, 1, 100)

(* The profile names an image and carries resource limits *)
WellFormed(input) == input.dockerImage # <<>> /\ input.resources.given

(* C24: validateRuntimeConfig returns valid = true together with a config   *)
(* exactly when it reports no errors; a profile that does not run as        *)
(* non-root, allows new privileges, does not drop ALL capabilities, uses an *)
(* image tagged :latest or has a resource limit outside its bounds gets     *)
(* valid = false and at least one error; a well-formed profile that is not  *)
(* unsafe is valid whatever warnings it earns.                              *)
C24_ValidIffNoErrors ==
    lastV.called =>
        /\ lastV.result.valid <=> lastV.result.errors = <<>>
        /\ lastV.result.valid <=> lastV.result.hasConfig
        /\ Unsafe(lastV.input) =>
              ~lastV.result.valid /\ Len(lastV.result.errors) >= 1
        /\ (WellFormed(lastV.input) /\ ~Unsafe(lastV.input)) => lastV.result.valid
        /\ lastV.result.warnings # <<>> => lastV.result.valid

C24_Witness ==
    /\ lastV.called
    /\ ~lastV.result.valid
    /\ lastV.input.resources.memoryMb = 1025
    /\ ~lastV.input.security.runAsNonRoot
    /\ Len(lastV.result.errors) = 2

----------------------------------------------------------------------------
(* Pipelines.  A step's hold is read off the payments the contract made for  *)
(* the pipeline: paid out to the step's agent, returned to the creator, or   *)
(* neither.                                                                  *)
HoldStatus(key, i) ==
    LET log == Log(transfers, key)
        p == Pipeline(pipelines, key)
    IN  IF \E j \in DOMAIN log : log[j].step = i /\ log[j].to = p.steps[i].agentAddress
        THEN "Released"
        ELSE IF \E j \in DOMAIN log : log[j].step = i /\ log[j].to = p.creator
        THEN "Refunded"
        ELSE "Escrowed"

(* C5: a pipeline never ends in a mixed settlement: a Completed pipeline has *)
(* every step Completed and every step's hold Released, a Failed or          *)
(* Cancelled pipeline has every step's hold Refunded.                        *)
C5_NoMixedSettlement ==
    \A key \in DOMAIN pipelines :
        LET p == pipelines[key]
        IN  /\ p.status = "Completed" =>
                  \A i \in DOMAIN p.steps :
                      p.steps[i].status = "Completed" /\ HoldStatus(key, i) = "Released"
            /\ p.status \in {"Failed", "Cancelled"} =>
                  \A i \in DOMAIN p.steps : HoldStatus(key, i) = "Refunded"

(* C6: executePipeline dispatches the steps in position order; at the first  *)
(* failing step it dispatches no later step, marks the pipeline Failed and   *)
(* refunds every step's hold, those of completed steps included.             *)
C6_HaltAndRefundAll ==
    (lastP.op = "executePipeline" /\ lastP.err = OK) =>
        LET p == Pipeline(pipelines, lastP.key)
            d == Log(dispatched, lastP.key)
        IN  /\ \A j \in DOMAIN d : d[j] = j
            /\ (\E i \in DOMAIN p.steps : p.steps[i].status = "Failed") =>
                  /\ p.status = "Failed"
                  /\ p.steps[Len(d)].status = "Failed"
                  /\ \A i \in DOMAIN p.steps : i < Len(d) => p.steps[i].status = "Completed"
                  /\ \A i \in DOMAIN p.steps : i > Len(d) => p.steps[i].status = "Pending"
                  /\ \A i \in DOMAIN p.steps : HoldStatus(lastP.key, i) = "Refunded"

(* C7: when every step of a pipeline succeeds, each agent is paid            *)
(* floor(totalCost * share / 10000) and the agents' payouts plus the         *)
(* platform's share add up to totalCost exactly; a revenue distribution      *)
(* likewise hands out the whole revenue.  Stated for step shares that sum to *)
(* 10000 and a pipeline that gives the whole cost to the step shares.        *)
C7_PayoutsSumToTotalCost ==
    /\ (lastP.op = "executePipeline" /\ lastP.err = OK) =>
          LET p == Pipeline(pipelines, lastP.key)
              log == Log(transfers, lastP.key)
          IN  (/\ p.status = "Completed"
               /\ SumShares(p.steps, 1) = BPS_DENOMINATOR
               /\ p.revenueShare = BPS_DENOMINATOR) =>
                  /\ \A i \in DOMAIN p.steps :
                        log[i].amount
                            = (p.totalCost * p.steps[i].revenueShare) \div BPS_DENOMINATOR
                  /\ lastP.paid = p.totalCost
    /\ (lastP.op = "distributeRevenue" /\ lastP.err = OK) => lastP.paid = lastP.total

(* C8: createPipeline creates a pipeline only from a non-empty step list     *)
(* whose revenue shares sum to exactly 10000; otherwise it fails and stores  *)
(* no pipeline record.                                                       *)
C8_CreateValidatesSteps ==
    /\ \A key \in DOMAIN pipelines :
          LET p == pipelines[key]
          IN  p.creator # ZERO =>
                 /\ Len(p.steps) >= 1
                 /\ SumShares(p.steps, 1) = BPS_DENOMINATOR
    /\ lastP.op = "createPipeline" =>
          (lastP.err = OK <=>
              LET p == Pipeline(pipelines, lastP.key)
              IN  Len(p.steps) >= 1 /\ SumShares(p.steps, 1) = BPS_DENOMINATOR)

====
